---- MODULE Spec2Model ----
(***************************************************************************)
(* Model of the lead qualification engine of pi-lead-qualifier:            *)
(*   - the rule-based engine   (src/src/qualifier.py, LeadQualifier)       *)
(*   - the two-tier AI engine  (src/src/qualifier.py, TwoTierQualifier,    *)
(*     src/src/chatgpt_scorer.py, src/src/claude_analyzer.py)              *)
(*   - the lead processor      (src/src/main.py, src/run_local.py)         *)
(* The specifications of the module:                                       *)
(*   SpecTier      the tier decision function on arbitrary inputs          *)
(*   SpecRule      LeadQualifier.qualify_lead on bounded leads             *)
(*   SpecVary      qualify_lead on pairs of leads differing in one field   *)
(*   SpecRecommend ChatGPTScorer._determine_recommendation on its inputs   *)
(*   SpecTwoTier   TwoTierQualifier.qualify_lead on provider responses     *)
(*   SpecHistory   ProcessingHistory under sequences of add                *)
(*   SpecDaemon    LeadProcessor.run_daemon with stop() and interrupts     *)
(*   SpecDaemonFair SpecDaemon in which the daemon thread keeps running    *)
(***************************************************************************)
EXTENDS Integers, Sequences, FiniteSets, TLC

VARIABLES
    config,     \* QualificationConfig of the LeadQualifier
    dt,         \* SpecTier: the current call of _determine_tier
    dtPrev,     \* SpecTier: the call before it (NoCall if none)
    clock,      \* SpecRule: datetime.now(), as a date ordinal
    claude_client, \* SpecRule: LeadQualifier.claude_client is not None
    curLead,    \* SpecRule: the Lead being qualified
    result,     \* SpecRule: the QualificationResult of the last qualify_lead
    prevResult, \* SpecRule: the QualificationResult of the call before it
    thresholds, \* ScoringThresholds of the two-tier engine
    dr,         \* SpecRecommend: the current call of _determine_recommendation
    drPrev,     \* SpecRecommend: the call before it (NoCall if none)
    gptReply,   \* SpecTwoTier: what the Tier-1 provider call does
    claudeReply,\* SpecTwoTier: what the Tier-2 provider call does, if made
    twoTier,    \* SpecTwoTier: the outcome of TwoTierQualifier.qualify_lead
    history,    \* ProcessingHistory._history, newest first
    max_size,   \* ProcessingHistory.max_size
    added,      \* SpecHistory: every entry handed to add, oldest first
    app,        \* AppConfig of the LeadProcessor (clio_enabled, email_enabled)
    entry,      \* the entry point that runs the daemon: main.py or run_local.py
    running,    \* LeadProcessor._running
    shutdown_event, \* LeadProcessor._shutdown_event is set
    pc,         \* where the thread that runs run_daemon is
    batch,      \* the leads of get_new_leads not yet reached by the loop
    processed_count, \* process_all_new_leads: leads processed in this batch
    polls,      \* number of poll cycles begun
    call,       \* the latest call of process_lead and what it did
    after_stop, \* number of process_lead calls begun after stop()
    fetch,      \* the latest call of get_new_leads and what followed its failure
    store,      \* the Airtable table: the fields of each record that the code uses
    matters,    \* Clio: the number of matters created for each record
    creds,      \* SpecStartup: the credentials that the environment provides
    lock,       \* SpecReaders: the thread that holds ProcessingHistory._lock
    adding,     \* SpecReaders: the add call in progress and where it is
    reading,    \* SpecReaders: the read call in progress of each dashboard thread
    seen,       \* SpecReaders: what the latest read returned
    recent      \* SpecReaders: the list that the latest get_recent returned

vars == <<config, dt, dtPrev, clock, claude_client, curLead, result, prevResult,
          thresholds, dr, drPrev, gptReply, claudeReply, twoTier,
          history, max_size, added, app, entry, running, shutdown_event, pc,
          batch, processed_count, polls, call, after_stop, fetch, store, matters,
          creds, lock, adding, reading, seen, recent>>
tierVars == <<dt, dtPrev>>
ruleVars == <<clock, claude_client, curLead, result, prevResult>>
twoTierVars == <<thresholds, dr, drPrev, gptReply, claudeReply, twoTier>>
historyVars == <<history, max_size, added>>
daemonVars == <<app, entry, running, shutdown_event, pc, batch, processed_count,
                polls, call, after_stop, fetch, store, matters>>
readVars == <<lock, adding, reading, seen, recent>>
procVars == <<historyVars, daemonVars, creds, readVars>>

(***************************************************************************)
(* Bounds of the model                                                     *)
(***************************************************************************)
MaxScore == 16          \* scores handed to the tier decision: 0..MaxScore
MaxFlags == 2           \* longest safety_flags list in SpecTier

NoCall == [called |-> FALSE]

(***************************************************************************)
(* QualificationTier (qualifier.py:24-28)                                  *)
(***************************************************************************)
TIER_1_AUTO_ACCEPT == "tier1"
TIER_2_REVIEW == "tier2"
TIER_3_AUTO_DECLINE == "tier3"
QualificationTier == {TIER_1_AUTO_ACCEPT, TIER_2_REVIEW, TIER_3_AUTO_DECLINE}

\* SafetyFlag (qualifier.py:31-36); the description is display text only
SafetyFlag(flag_type, severity) == [flag_type |-> flag_type, severity |-> severity]

(***************************************************************************)
(* QualificationConfig (config.py:144-166): point values, thresholds and   *)
(* SOL settings.  The defaults are the dataclass defaults; the thresholds  *)
(* are configuration (from_env, config.py:209-230), so other orderings of  *)
(* tier1_threshold and tier2_threshold are configurations too.             *)
(***************************************************************************)
\* the county lists of the deployment the tests describe
\* (tests/test_cases.py:26-42); the dataclass default is two empty lists
TriCounty == {"charleston", "berkeley", "dorchester"}
ScCounties ==
    { "abbeville", "aiken", "allendale", "anderson", "bamberg", "barnwell",
      "beaufort", "berkeley", "calhoun", "charleston", "cherokee", "chester",
      "chesterfield", "clarendon", "colleton", "darlington", "dillon",
      "dorchester", "edgefield", "fairfield", "florence", "georgetown",
      "greenville", "greenwood", "hampton", "horry", "jasper", "kershaw",
      "lancaster", "laurens", "lee", "lexington", "marion", "marlboro",
      "mccormick", "newberry", "oconee", "orangeburg", "pickens", "richland",
      "saluda", "spartanburg", "sumter", "union", "williamsburg", "york" }

\* keyword lists of QualificationConfig (config.py:174-197)
disputed_liability_keywords ==
    << "disputed", "my client may be at fault", "unclear", "comparative",
       "contributory", "both parties", "shared fault", "partial fault" >>

insufficient_treatment_keywords ==
    << "none yet", "no treatment", "hasn't seen doctor", "refused treatment",
       "self-treating", "home remedies only" >>

serious_injury_keywords ==
    << "fracture", "broken", "surgery", "surgical", "operation", "permanent",
       "disability", "amputation", "traumatic brain", "tbi", "spinal cord",
       "paralysis", "herniated", "torn", "rupture", "internal bleeding" >>

clear_liability_keywords ==
    << "rear-end", "rear end", "rearend", "ran red light", "ran stop sign",
       "ran the light", "ran the sign", "speeding", "dui", "dwi", "drunk",
       "intoxicated", "bac", "failed sobriety", "citation issued",
       "ticket issued", "at fault", "100% fault", "admitted fault" >>

DefaultQualificationConfig ==
    [ medical_treatment_points    |-> 3,
      clear_liability_points      |-> 3,
      identified_insurance_points |-> 2,
      sol_buffer_points           |-> 1,
      serious_injury_points       |-> 2,
      tri_county_bonus            |-> 5,
      tier1_threshold             |-> 11,
      tier2_threshold             |-> 7,
      sol_years                   |-> 3,
      min_sol_months_remaining    |-> 18,
      preferred_counties          |-> TriCounty,
      accepted_counties           |-> ScCounties ]

QualificationConfigs ==
    { DefaultQualificationConfig,
      [DefaultQualificationConfig EXCEPT !.tier1_threshold = 7, !.tier2_threshold = 11],
      [DefaultQualificationConfig EXCEPT !.tier1_threshold = 9, !.tier2_threshold = 9] }

(***************************************************************************)
(* Optional[T]: None is the empty tuple, a present value v is <<v>>.       *)
(***************************************************************************)
None == <<>>
Some(v) == <<v>>
Val(o) == o[1]

\* the two-tier engine is not constructed in the specifications of the rule engine
TwoTierIdle ==
    /\ thresholds = None
    /\ dr = NoCall
    /\ drPrev = NoCall
    /\ gptReply = None
    /\ claudeReply = None
    /\ twoTier = None

\* no LeadProcessor is constructed in the specifications of the engines
DaemonIdle ==
    /\ app = None
    /\ entry = None
    /\ running = FALSE
    /\ shutdown_event = FALSE
    /\ pc = None
    /\ batch = <<>>
    /\ processed_count = 0
    /\ polls = 0
    /\ call = None
    /\ after_stop = 0
    /\ fetch = None
    /\ store = None
    /\ matters = None

\* no thread uses the history in the specifications of one thread
ReadIdle ==
    /\ lock = None
    /\ adding = None
    /\ reading = None
    /\ seen = None
    /\ recent = None

ProcIdle ==
    /\ history = <<>>
    /\ max_size = 0
    /\ added = <<>>
    /\ DaemonIdle
    /\ creds = None
    /\ ReadIdle

(***************************************************************************)
(* Python str operations used by the engine.  Texts are TLA+ strings.      *)
(***************************************************************************)
\* one character of str.lower() (ASCII letters)
LowerChar(c) ==
    CASE c = "A" -> "a" [] c = "B" -> "b" [] c = "C" -> "c" [] c = "D" -> "d"
      [] c = "E" -> "e" [] c = "F" -> "f" [] c = "G" -> "g" [] c = "H" -> "h"
      [] c = "I" -> "i" [] c = "J" -> "j" [] c = "K" -> "k" [] c = "L" -> "l"
      [] c = "M" -> "m" [] c = "N" -> "n" [] c = "O" -> "o" [] c = "P" -> "p"
      [] c = "Q" -> "q" [] c = "R" -> "r" [] c = "S" -> "s" [] c = "T" -> "t"
      [] c = "U" -> "u" [] c = "V" -> "v" [] c = "W" -> "w" [] c = "X" -> "x"
      [] c = "Y" -> "y" [] c = "Z" -> "z" [] OTHER -> c

\* str.lower()
RECURSIVE lower(_)
lower(s) ==
    IF Len(s) = 0 THEN ""
    ELSE LowerChar(SubSeq(s, 1, 1)) \o lower(SubSeq(s, 2, Len(s)))

\* str.upper() is lower()'s inverse on letters
UpperChar(c) ==
    CASE c = "a" -> "A" [] c = "b" -> "B" [] c = "c" -> "C" [] c = "d" -> "D"
      [] c = "e" -> "E" [] c = "f" -> "F" [] c = "g" -> "G" [] c = "h" -> "H"
      [] c = "i" -> "I" [] c = "j" -> "J" [] c = "k" -> "K" [] c = "l" -> "L"
      [] c = "m" -> "M" [] c = "n" -> "N" [] c = "o" -> "O" [] c = "p" -> "P"
      [] c = "q" -> "Q" [] c = "r" -> "R" [] c = "s" -> "S" [] c = "t" -> "T"
      [] c = "u" -> "U" [] c = "v" -> "V" [] c = "w" -> "W" [] c = "x" -> "X"
      [] c = "y" -> "Y" [] c = "z" -> "Z" [] OTHER -> c

RECURSIVE upper(_)
upper(s) ==
    IF Len(s) = 0 THEN ""
    ELSE UpperChar(SubSeq(s, 1, 1)) \o upper(SubSeq(s, 2, Len(s)))

IsSpace(c) == c \in {" ", "\t", "\n", "\r"}

\* str.strip()
RECURSIVE lstrip(_)
lstrip(s) ==
    IF Len(s) > 0 /\ IsSpace(SubSeq(s, 1, 1)) THEN lstrip(SubSeq(s, 2, Len(s))) ELSE s

RECURSIVE rstrip(_)
rstrip(s) ==
    IF Len(s) > 0 /\ IsSpace(SubSeq(s, Len(s), Len(s)))
    THEN rstrip(SubSeq(s, 1, Len(s) - 1)) ELSE s

strip(s) == rstrip(lstrip(s))

\* `kw in text` on strings: kw is a contiguous substring of text
Contains(text, kw) ==
    \E i \in 1..(Len(text) - Len(kw) + 1) : SubSeq(text, i, i + Len(kw) - 1) = kw

\* any(kw in text for kw in kws), kws a list of strings
AnyIn(text, kws) == \E n \in 1..Len(kws) : Contains(text, kws[n])

\* str.startswith / str.endswith
startswith(s, p) == Len(s) >= Len(p) /\ SubSeq(s, 1, Len(p)) = p
endswith(s, p) == Len(s) >= Len(p) /\ SubSeq(s, Len(s) - Len(p) + 1, Len(s)) = p

\* `x or ""` for an Optional[str]
OrEmpty(o) == IF o = None THEN "" ELSE Val(o)

\* truthiness of an Optional[str]: None and "" are falsy
Truthy(o) == o # None /\ Val(o) # ""

(***************************************************************************)
(* LeadQualifier._analyze_geography (qualifier.py:181-232)                 *)
(***************************************************************************)
IsAz(c) == c \in { "a", "b", "c", "d", "e", "f", "g", "h", "i", "j", "k", "l", "m",
                   "n", "o", "p", "q", "r", "s", "t", "u", "v", "w", "x", "y", "z" }
\* \w of the regular expression, on lower-cased text
IsWordChar(c) == IsAz(c) \/ c \in {"0", "1", "2", "3", "4", "5", "6", "7", "8", "9", "_"}
CharAt(s, i) == SubSeq(s, i, i)

\* the position where "county" starts when  \s*county\b  matches right after j
CountyAfter(s, j) ==
    { k \in (j + 1)..(Len(s) - 5) :
        /\ \A m \in (j + 1)..(k - 1) : IsSpace(CharAt(s, m))
        /\ SubSeq(s, k, k + 5) = "county"
        /\ (k + 6 > Len(s) \/ ~IsWordChar(CharAt(s, k + 6))) }

\* the matches <<i, j>> of  \b([a-z]+)\s*county\b : the group is s[i..j]
CountyMatches(s) ==
    { ij \in (1..Len(s)) \X (1..Len(s)) :
        /\ ij[1] <= ij[2]
        /\ \A m \in ij[1]..ij[2] : IsAz(CharAt(s, m))
        /\ (ij[1] = 1 \/ ~IsWordChar(CharAt(s, ij[1] - 1)))
        /\ CountyAfter(s, ij[2]) # {} }

\* re.search: the leftmost match, its group taken greedily; None if no match
CountySearch(s) ==
    LET M == CountyMatches(s) IN
    IF M = {} THEN None
    ELSE LET i == CHOOSE a \in { ij[1] : ij \in M } : \A b \in { ij[1] : ij \in M } : a <= b
             js == { ij[2] : ij \in { x \in M : x[1] = i } }
             j == CHOOSE a \in js : \A b \in js : a >= b
         IN Some(SubSeq(s, i, j))

\* the city_to_county dict, in insertion order
city_to_county ==
    << <<"charleston", "charleston">>, <<"north charleston", "charleston">>,
       <<"mount pleasant", "charleston">>, <<"mt pleasant", "charleston">>,
       <<"summerville", "dorchester">>, <<"goose creek", "berkeley">>,
       <<"moncks corner", "berkeley">>, <<"columbia", "richland">>,
       <<"greenville", "greenville">>, <<"spartanburg", "spartanburg">>,
       <<"myrtle beach", "horry">>, <<"florence", "florence">>,
       <<"rock hill", "york">>, <<"anderson", "anderson">>,
       <<"hilton head", "beaufort">> >>

\* the first city of the dict found in the text
CityCounty(location_lower) ==
    LET hits == { n \in 1..Len(city_to_county) : Contains(location_lower, city_to_county[n][1]) } IN
    IF hits = {} THEN None
    ELSE Some(city_to_county[CHOOSE n \in hits : \A m \in hits : n <= m][2])

\* returns [county, is_tri_county, is_in_sc]
analyze_geography(cfg, location) ==
    IF ~Truthy(location)
    THEN [county |-> None, is_tri_county |-> FALSE, is_in_sc |-> FALSE]
    ELSE LET location_lower == lower(Val(location))
             explicit == CountySearch(location_lower)
             county == IF explicit # None THEN explicit ELSE CityCounty(location_lower)
             is_in_sc ==
                 IF county # None /\ Val(county) \in cfg.accepted_counties THEN TRUE
                 ELSE AnyIn(location_lower, <<", sc", "south carolina", ", s.c.">>)
             is_tri_county == IF county # None THEN Val(county) \in cfg.preferred_counties ELSE FALSE
         IN [county |-> county, is_tri_county |-> is_tri_county, is_in_sc |-> is_in_sc]

(***************************************************************************)
(* datetime: a date is its proleptic Gregorian ordinal (date.toordinal()). *)
(* _calculate_sol_remaining reads only the year and month of its dates and *)
(* compares them with >=; the time of day cannot change its result (on the *)
(* day of expiry the month difference is 0, the value of an expired SOL),  *)
(* so dates carry no time of day.                                          *)
(***************************************************************************)
\* [year, month] of an ordinal (civil calendar, leap years included)
YearMonth(ordinal) ==
    LET z == ordinal + 305
        era == z \div 146097
        doe == z - era * 146097
        yoe == (doe - (doe \div 1460) + (doe \div 36524) - (doe \div 146096)) \div 365
        doy == doe - (365 * yoe + (yoe \div 4) - (yoe \div 100))
        mp == (5 * doy + 2) \div 153
        m == IF mp < 10 THEN mp + 3 ELSE mp - 9
        y == yoe + era * 400 + (IF m <= 2 THEN 1 ELSE 0)
    IN [year |-> y, month |-> m]

Max(a, b) == IF a >= b THEN a ELSE b

(***************************************************************************)
(* LeadQualifier._calculate_sol_remaining (qualifier.py:234-248)           *)
(***************************************************************************)
calculate_sol_remaining(cfg, today, accident_date) ==
    IF accident_date = None THEN None
    ELSE LET sol_expiration == Val(accident_date) + cfg.sol_years * 365 IN
         IF today >= sol_expiration THEN Some(0)
         ELSE LET e == YearMonth(sol_expiration)
                  t == YearMonth(today)
                  months == (e.year - t.year) * 12 + (e.month - t.month)
              IN Some(Max(0, months))

(***************************************************************************)
(* LeadQualifier._check_safety_rules (qualifier.py:250-325)                *)
(***************************************************************************)
\* " ".join(filter(None, fields)): None and "" are dropped
RECURSIVE Join(_)
Join(strs) ==
    IF strs = <<>> THEN ""
    ELSE IF Len(strs) = 1 THEN Val(strs[1])
    ELSE Val(strs[1]) \o " " \o Join(Tail(strs))

JoinTruthy(fields) == Join(SelectSeq(fields, Truthy))

minor_indicators ==
    << "minor", "child", "age 17", "age 16", "age 15",
       "year old", "years old", "minor child", "juvenile" >>

multi_party_indicators ==
    << "multiple vehicles", "multi-vehicle", "chain reaction",
       "three car", "four car", "several parties", "multiple parties" >>

commercial_indicators ==
    << "commercial", "truck", "18-wheeler", "semi", "tractor-trailer",
       "delivery van", "box truck", "company vehicle", "fleet" >>

\* mutant: the loop over the keywords has no break, one flag per keyword found
FamilyFlag_every_match(text, kws, flag_type) ==
    [ i \in 1..Len(SelectSeq(kws, LAMBDA k : Contains(text, k))) |->
        SafetyFlag(flag_type, "review") ]

\* one `for keyword in kws: if keyword in text: flags.append(...); break`
FamilyFlag(text, kws, flag_type) ==
    IF AnyIn(text, kws) THEN << SafetyFlag(flag_type, "review") >> ELSE <<>>

TreatmentFlag(lead) ==
    LET med_text == lower(OrEmpty(lead.medical_treatment)) IN
    IF med_text = "" \/ strip(med_text) \in {"", "none", "n/a"}
    THEN << SafetyFlag("no_medical_treatment", "review") >>
    ELSE FamilyFlag(med_text, insufficient_treatment_keywords, "insufficient_treatment")

check_safety_rules(lead) ==
    LET all_text == lower(JoinTruthy(<< lead.injury_description,
                                        lead.medical_treatment,
                                        lead.liability_notes >>))
    IN    FamilyFlag(all_text, disputed_liability_keywords, "disputed_liability")
       \o TreatmentFlag(lead)
       \o FamilyFlag(all_text, minor_indicators, "minor_plaintiff")
       \o FamilyFlag(all_text, multi_party_indicators, "multiple_parties")
       \o FamilyFlag(all_text, commercial_indicators, "commercial_vehicle")

(***************************************************************************)
(* LeadQualifier._analyze_medical_treatment (qualifier.py:327-354)         *)
(* returns [met, points]; the detail string is display text                *)
(***************************************************************************)
analyze_medical_treatment(cfg, lead) ==
    LET med_text == lower(OrEmpty(lead.medical_treatment))
        injury_text == lower(OrEmpty(lead.injury_description))
        combined == med_text \o " " \o injury_text
        has_er == AnyIn(combined, <<"emergency room", "er visit", "emergency department",
                                    "ed visit", "hospital">>)
        has_ortho == AnyIn(combined, <<"orthopedic", "orthopaedic", "orthopedist">>)
        has_surgery == AnyIn(combined, <<"surgery", "surgical", "operation">>)
        has_followup == AnyIn(combined, <<"physical therapy", "pt", "chiropractor",
                                          "follow-up", "followup", "specialist">>)
        treatment_met == (has_er /\ (has_ortho \/ has_followup)) \/ has_surgery
    IN [met |-> treatment_met,
        points |-> IF treatment_met THEN cfg.medical_treatment_points ELSE 0]

(***************************************************************************)
(* LeadQualifier._analyze_liability (qualifier.py:356-392)                 *)
(***************************************************************************)
analyze_liability(cfg, lead) ==
    LET liability_text == lower(OrEmpty(lead.liability_notes)) IN
    IF strip(liability_text) = "" THEN [met |-> FALSE, points |-> 0]
    ELSE LET clear_liability ==
                 \/ AnyIn(liability_text, clear_liability_keywords)
                 \/ (Contains(liability_text, "rear") /\ Contains(liability_text, "end"))
                 \/ AnyIn(liability_text, <<"dui", "dwi", "drunk", "intoxicated", "bac">>)
                 \/ AnyIn(liability_text, <<"citation", "ticket", "cited", "ticketed">>)
         IN [met |-> clear_liability,
             points |-> IF clear_liability THEN cfg.clear_liability_points ELSE 0]

(***************************************************************************)
(* LeadQualifier._analyze_insurance (qualifier.py:394-404)                 *)
(***************************************************************************)
analyze_insurance(cfg, lead) ==
    LET carrier == lower(strip(OrEmpty(lead.insurance_carrier))) IN
    IF carrier = "" \/ carrier \in {"", "unknown", "n/a", "none", "tbd"}
    THEN [met |-> FALSE, points |-> 0]
    ELSE IF carrier \in {"uninsured", "uninsured motorist", "um", "no insurance"}
    THEN [met |-> FALSE, points |-> 0]
    ELSE [met |-> TRUE, points |-> cfg.identified_insurance_points]

(***************************************************************************)
(* LeadQualifier._analyze_sol (qualifier.py:406-418)                       *)
(***************************************************************************)
\* mutants of _analyze_sol
analyze_sol_unknown_adequate(cfg, months_remaining) ==
    IF months_remaining = None THEN [met |-> TRUE, points |-> 0]
    ELSE IF Val(months_remaining) < cfg.min_sol_months_remaining
    THEN [met |-> FALSE, points |-> 0]
    ELSE IF Val(months_remaining) > 24
    THEN [met |-> TRUE, points |-> cfg.sol_buffer_points]
    ELSE [met |-> TRUE, points |-> 0]

analyze_sol_always_bonus(cfg, months_remaining) ==
    IF months_remaining = None THEN [met |-> FALSE, points |-> 0]
    ELSE IF Val(months_remaining) < cfg.min_sol_months_remaining
    THEN [met |-> FALSE, points |-> 0]
    ELSE [met |-> TRUE, points |-> cfg.sol_buffer_points]

analyze_sol(cfg, months_remaining) ==
    IF months_remaining = None THEN [met |-> FALSE, points |-> 0]
    ELSE IF Val(months_remaining) < cfg.min_sol_months_remaining
    THEN [met |-> FALSE, points |-> 0]
    ELSE IF Val(months_remaining) > 24
    THEN [met |-> TRUE, points |-> cfg.sol_buffer_points]
    ELSE [met |-> TRUE, points |-> 0]

(***************************************************************************)
(* LeadQualifier._analyze_injury_severity (qualifier.py:420-447)           *)
(***************************************************************************)
injury_type_map ==
    << << <<"fracture", "broken", "break">>, "Fracture injuries" >>,
       << <<"surgery", "surgical">>, "Surgical case" >>,
       << <<"traumatic brain", "tbi", "concussion", "head injury">>, "Head/Brain injury" >>,
       << <<"spinal", "spine", "back injury", "neck injury", "herniated">>, "Spinal injuries" >>,
       << <<"torn", "rupture", "acl", "mcl", "rotator cuff">>, "Torn ligament/tendon" >>,
       << <<"whiplash", "strain", "sprain">>, "Whiplash/soft tissue" >> >>

analyze_injury_severity(cfg, lead) ==
    LET injury_text == lower(OrEmpty(lead.injury_description))
        med_text == lower(OrEmpty(lead.medical_treatment))
        combined == injury_text \o " " \o med_text
        hits == { n \in 1..Len(injury_type_map) : AnyIn(combined, injury_type_map[n][1]) }
        injury_type ==
            IF hits = {} THEN "Soft tissue injuries"
            ELSE injury_type_map[CHOOSE n \in hits : \A m \in hits : n <= m][2]
        is_serious == AnyIn(combined, serious_injury_keywords)
    IN [met |-> is_serious,
        points |-> IF is_serious THEN cfg.serious_injury_points ELSE 0,
        injury_type |-> injury_type]

(***************************************************************************)
(* LeadQualifier._estimate_case_value (qualifier.py:535-550)               *)
(***************************************************************************)
estimate_case_value(serious, medical_met, liability_met, is_tri_county) ==
    IF ~(medical_met /\ liability_met) THEN None
    ELSE LET base_value == IF serious THEN 75000 ELSE 25000 IN
         Some(IF is_tri_county THEN (base_value * 12) \div 10 ELSE base_value)

(***************************************************************************)
(* LeadQualifier._determine_tier (qualifier.py:449-472)                    *)
(***************************************************************************)
\* mutants of _determine_tier
determine_tier_no_jurisdiction(cfg, score, safety_flags, is_in_sc, sol_adequate) ==
    IF ~sol_adequate THEN TIER_3_AUTO_DECLINE
    ELSE IF SelectSeq(safety_flags, LAMBDA f : f.severity \in {"block", "review"}) # <<>>
            /\ score >= cfg.tier1_threshold
         THEN TIER_2_REVIEW
    ELSE IF score >= cfg.tier1_threshold THEN TIER_1_AUTO_ACCEPT
    ELSE IF score >= cfg.tier2_threshold THEN TIER_2_REVIEW
    ELSE TIER_3_AUTO_DECLINE

determine_tier_flags_any_score(cfg, score, safety_flags, is_in_sc, sol_adequate) ==
    IF ~is_in_sc THEN TIER_3_AUTO_DECLINE
    ELSE IF ~sol_adequate THEN TIER_3_AUTO_DECLINE
    ELSE IF SelectSeq(safety_flags, LAMBDA f : f.severity \in {"block", "review"}) # <<>>
         THEN TIER_2_REVIEW
    ELSE IF score >= cfg.tier1_threshold THEN TIER_1_AUTO_ACCEPT
    ELSE IF score >= cfg.tier2_threshold THEN TIER_2_REVIEW
    ELSE TIER_3_AUTO_DECLINE

determine_tier_review_first(cfg, score, safety_flags, is_in_sc, sol_adequate) ==
    IF ~is_in_sc THEN TIER_3_AUTO_DECLINE
    ELSE IF ~sol_adequate THEN TIER_3_AUTO_DECLINE
    ELSE IF score >= cfg.tier2_threshold THEN TIER_2_REVIEW
    ELSE IF score >= cfg.tier1_threshold THEN TIER_1_AUTO_ACCEPT
    ELSE TIER_3_AUTO_DECLINE

review_flags(safety_flags) ==
    SelectSeq(safety_flags, LAMBDA f : f.severity \in {"block", "review"})

determine_tier(cfg, score, safety_flags, is_in_sc, sol_adequate) ==
    IF ~is_in_sc THEN TIER_3_AUTO_DECLINE
    ELSE IF ~sol_adequate THEN TIER_3_AUTO_DECLINE
    ELSE IF review_flags(safety_flags) # <<>> /\ score >= cfg.tier1_threshold
         THEN TIER_2_REVIEW
    ELSE IF score >= cfg.tier1_threshold THEN TIER_1_AUTO_ACCEPT
    ELSE IF score >= cfg.tier2_threshold THEN TIER_2_REVIEW
    ELSE TIER_3_AUTO_DECLINE

(***************************************************************************)
(* The leads of SpecRule: every combination of the field values below.     *)
(* The texts are chosen so that each component scorer, each flag family    *)
(* and each branch of the geography resolver is met by some lead and       *)
(* missed by another.                                                      *)
(***************************************************************************)
Todays == {739921, 738916}          \* 2026-11-01 and 2024-01-31
DaysAgo == {60, 400, 912}           \* age of the accident in days

Locations ==
    { None, Some("Charleston, SC"), Some("Greenville, SC"),
      Some("Summerville"), Some("Atlanta, GA") }

Injuries ==
    { None, Some("Broken arm"), Some("Neck pain and whiplash") }

Treatments ==
    { None, Some("None yet"), Some("ER visit, then physical therapy"),
      Some("Surgery on the arm") }

LiabilityNotes ==
    { None, Some("Rear-end collision, other driver cited"),
      Some("Rear-end by a delivery truck, driver cited"),
      Some("Disputed, both drivers blame each other"),
      Some("Disputed and unclear, chain reaction with a semi truck, child hurt") }

Carriers == { None, Some("State Farm"), Some("Unknown") }

Lead(loc, date, inj, med, liab, carrier) ==
    [ accident_location  |-> loc,
      accident_date      |-> date,
      injury_description |-> inj,
      medical_treatment  |-> med,
      liability_notes    |-> liab,
      insurance_carrier  |-> carrier ]

AccidentDates(now) == { None } \cup { Some(now - d) : d \in DaysAgo }

Leads(now) ==
    { Lead(loc, date, inj, med, liab, carrier) :
        loc \in Locations, date \in AccidentDates(now), inj \in Injuries,
        med \in Treatments, liab \in LiabilityNotes, carrier \in Carriers }

(***************************************************************************)
(* The text scans of qualify_lead (qualifier.py:100-109), tabulated over   *)
(* the field values of SpecRule so that each scan is evaluated once.       *)
(***************************************************************************)
RuleConfigs ==
    { DefaultQualificationConfig,
      [DefaultQualificationConfig EXCEPT !.accepted_counties = {}] }

Scanned ==
    [ cfg \in RuleConfigs, inj \in Injuries, med \in Treatments, liab \in LiabilityNotes |->
        LET l == Lead(None, None, inj, med, liab, None) IN
        [ safety_flags |-> check_safety_rules(l),
          medical      |-> analyze_medical_treatment(cfg, l),
          liability    |-> analyze_liability(cfg, l),
          injury       |-> analyze_injury_severity(cfg, l) ] ]

Geography ==
    [ cfg \in RuleConfigs, loc \in Locations |-> analyze_geography(cfg, loc) ]

Insurance ==
    [ cfg \in RuleConfigs, carrier \in Carriers |->
        analyze_insurance(cfg, Lead(None, None, None, None, None, carrier)) ]

(***************************************************************************)
(* "Calculate geographic bonus" and "Calculate total score" of             *)
(* qualify_lead (qualifier.py:111-117 and 119-127)                         *)
(***************************************************************************)
calc_geographic_bonus(cfg, is_in_sc, is_tri_county) ==
    IF ~is_in_sc THEN 0
    ELSE IF is_tri_county THEN cfg.tri_county_bonus
    ELSE 0

\* mutant: the bonus left out of the sum
calc_total_score_no_bonus(medical_points, liability_points, insurance_points, sol_points, serious_points, geographic_bonus) ==
    medical_points + liability_points + insurance_points + sol_points + serious_points

calc_total_score(medical_points, liability_points, insurance_points, sol_points, serious_points, geographic_bonus) ==
    medical_points + liability_points + insurance_points
    + sol_points + serious_points + geographic_bonus

(***************************************************************************)
(* LeadQualifier.qualify_lead (qualifier.py:95-179)                        *)
(*   today      datetime.now() of this qualification                       *)
(*   has_client claude_client is not None (an API key is configured)       *)
(*   ai_reply   what _get_ai_analysis (qualifier.py:552-591) returns if it *)
(*              is called: Some(text), or None when the call raised        *)
(* The strengths/concerns/questions lists and the notes are display text   *)
(* built from the fields below and are not carried.                        *)
(***************************************************************************)
\* mutant: the narrative call is made for declined leads too
build_result_ai_for_declined(cfg, has_client, ai_reply, text, geo, insurance, sol, months_until_sol) ==
    LET geographic_bonus == calc_geographic_bonus(cfg, geo.is_in_sc, geo.is_tri_county)
        total_score == calc_total_score(text.medical.points, text.liability.points,
                                        insurance.points, sol.points, text.injury.points,
                                        geographic_bonus)
        tier == determine_tier(cfg, total_score, text.safety_flags, geo.is_in_sc, sol.met)
        ai_called == has_client
    IN [ tier                     |-> tier,
         total_score              |-> total_score,
         medical_treatment_met    |-> text.medical.met,
         medical_treatment_points |-> text.medical.points,
         liability_met            |-> text.liability.met,
         liability_points         |-> text.liability.points,
         insurance_identified     |-> insurance.met,
         insurance_points         |-> insurance.points,
         sol_adequate             |-> sol.met,
         sol_points               |-> sol.points,
         serious_injury           |-> text.injury.met,
         serious_injury_points    |-> text.injury.points,
         geographic_bonus         |-> geographic_bonus,
         county                   |-> geo.county,
         is_tri_county            |-> geo.is_tri_county,
         is_in_sc                 |-> geo.is_in_sc,
         months_until_sol         |-> months_until_sol,
         estimated_case_value     |-> estimate_case_value(text.injury.met, text.medical.met,
                                                          text.liability.met, geo.is_tri_county),
         injury_type              |-> text.injury.injury_type,
         safety_flags             |-> text.safety_flags,
         ai_calls                 |-> IF ai_called THEN 1 ELSE 0,
         ai_analysis              |-> IF ai_called THEN ai_reply ELSE None ]

\* mutant: an auto-accept whose narrative call returned nothing is sent to
\* review, so the tier depends on the outcome of the AI call
build_result_ai_decides_tier(cfg, has_client, ai_reply, text, geo, insurance, sol, months_until_sol) ==
    LET geographic_bonus == calc_geographic_bonus(cfg, geo.is_in_sc, geo.is_tri_county)
        total_score == calc_total_score(text.medical.points, text.liability.points,
                                        insurance.points, sol.points, text.injury.points,
                                        geographic_bonus)
        scored == determine_tier(cfg, total_score, text.safety_flags, geo.is_in_sc, sol.met)
        ai_called == has_client /\ scored # TIER_3_AUTO_DECLINE
        tier == IF ai_called /\ ai_reply = None /\ scored = TIER_1_AUTO_ACCEPT
                THEN TIER_2_REVIEW ELSE scored
    IN [ tier                     |-> tier,
         total_score              |-> total_score,
         medical_treatment_met    |-> text.medical.met,
         medical_treatment_points |-> text.medical.points,
         liability_met            |-> text.liability.met,
         liability_points         |-> text.liability.points,
         insurance_identified     |-> insurance.met,
         insurance_points         |-> insurance.points,
         sol_adequate             |-> sol.met,
         sol_points               |-> sol.points,
         serious_injury           |-> text.injury.met,
         serious_injury_points    |-> text.injury.points,
         geographic_bonus         |-> geographic_bonus,
         county                   |-> geo.county,
         is_tri_county            |-> geo.is_tri_county,
         is_in_sc                 |-> geo.is_in_sc,
         months_until_sol         |-> months_until_sol,
         estimated_case_value     |-> estimate_case_value(text.injury.met, text.medical.met,
                                                          text.liability.met, geo.is_tri_county),
         injury_type              |-> text.injury.injury_type,
         safety_flags             |-> text.safety_flags,
         ai_calls                 |-> IF ai_called THEN 1 ELSE 0,
         ai_analysis              |-> IF ai_called THEN ai_reply ELSE None ]

\* qualifier.py:111-179: bonus, total, tier, narrative call and the result,
\* from the analyses of lines 100-109
build_result(cfg, has_client, ai_reply, text, geo, insurance, sol, months_until_sol) ==
    LET geographic_bonus == calc_geographic_bonus(cfg, geo.is_in_sc, geo.is_tri_county)
        total_score == calc_total_score(text.medical.points, text.liability.points,
                                        insurance.points, sol.points, text.injury.points,
                                        geographic_bonus)
        tier == determine_tier(cfg, total_score, text.safety_flags, geo.is_in_sc, sol.met)
        ai_called == has_client /\ tier # TIER_3_AUTO_DECLINE
    IN [ tier                     |-> tier,
         total_score              |-> total_score,
         medical_treatment_met    |-> text.medical.met,
         medical_treatment_points |-> text.medical.points,
         liability_met            |-> text.liability.met,
         liability_points         |-> text.liability.points,
         insurance_identified     |-> insurance.met,
         insurance_points         |-> insurance.points,
         sol_adequate             |-> sol.met,
         sol_points               |-> sol.points,
         serious_injury           |-> text.injury.met,
         serious_injury_points    |-> text.injury.points,
         geographic_bonus         |-> geographic_bonus,
         county                   |-> geo.county,
         is_tri_county            |-> geo.is_tri_county,
         is_in_sc                 |-> geo.is_in_sc,
         months_until_sol         |-> months_until_sol,
         estimated_case_value     |-> estimate_case_value(text.injury.met, text.medical.met,
                                                          text.liability.met, geo.is_tri_county),
         injury_type              |-> text.injury.injury_type,
         safety_flags             |-> text.safety_flags,
         ai_calls                 |-> IF ai_called THEN 1 ELSE 0,
         ai_analysis              |-> IF ai_called THEN ai_reply ELSE None ]

qualify_lead(cfg, today, has_client, ai_reply, lead) ==
    LET months_until_sol == calculate_sol_remaining(cfg, today, lead.accident_date) IN
    build_result(cfg, has_client, ai_reply,
                 Scanned[cfg, lead.injury_description, lead.medical_treatment,
                         lead.liability_notes],
                 Geography[cfg, lead.accident_location],
                 Insurance[cfg, lead.insurance_carrier],
                 analyze_sol(cfg, months_until_sol), months_until_sol)

(***************************************************************************)
(* SpecRule: LeadQualifier.qualify_lead.  Init draws the configuration,    *)
(* the clock, whether a Claude client is configured, and a lead.  Qualify  *)
(* runs the engine on the lead; Requalify runs it again on the same lead.  *)
(* prevResult keeps the result of the run before.                          *)
(***************************************************************************)
AiReply == "Strong case; schedule intake call."

\* what the narrative call can return: nothing is called without a client
AiReplies(client) == IF client THEN { None, Some(AiReply) } ELSE { None }

InitRule ==
    /\ config \in RuleConfigs
    /\ clock \in Todays
    /\ claude_client \in BOOLEAN
    /\ curLead \in Leads(clock)
    /\ result = None
    /\ prevResult = None
    /\ dt = NoCall
    /\ dtPrev = NoCall
    /\ TwoTierIdle
    /\ ProcIdle

Qualify(ai_reply) ==
    /\ result = None
    /\ result' = Some(qualify_lead(config, clock, claude_client, ai_reply, curLead))
    /\ UNCHANGED <<config, clock, claude_client, curLead, prevResult, tierVars, twoTierVars, procVars>>

Requalify(ai_reply) ==
    /\ result # None
    /\ prevResult' = result
    /\ result' = Some(qualify_lead(config, clock, claude_client, ai_reply, curLead))
    /\ UNCHANGED <<config, clock, claude_client, curLead, tierVars, twoTierVars, procVars>>

NextRule ==
    \/ \E ai_reply \in AiReplies(claude_client) : Qualify(ai_reply)
    \/ \E ai_reply \in AiReplies(claude_client) : Requalify(ai_reply)

SpecRule == InitRule /\ [][NextRule]_vars

(***************************************************************************)
(* SpecVary: qualify_lead on two leads that differ in one field, in the    *)
(* configuration of the test suite (no API key, tests/test_cases.py:46-49).*)
(* Qualify runs the engine on the lead drawn by Init; QualifyVariant runs  *)
(* it on the lead with one field replaced and keeps the result before.     *)
(***************************************************************************)
VaryToday == 739921                \* 2026-11-01

LeadFields ==
    { "accident_location", "accident_date", "injury_description",
      "medical_treatment", "liability_notes", "insurance_carrier" }

FieldValues(now, f) ==
    CASE f = "accident_location"  -> Locations
      [] f = "accident_date"      -> AccidentDates(now)
      [] f = "injury_description" -> Injuries
      [] f = "medical_treatment"  -> Treatments
      [] f = "liability_notes"    -> LiabilityNotes
      [] f = "insurance_carrier"  -> Carriers

InitVary ==
    /\ config \in RuleConfigs
    /\ clock = VaryToday
    /\ claude_client = FALSE
    /\ curLead \in Leads(clock)
    /\ result = None
    /\ prevResult = None
    /\ dt = NoCall
    /\ dtPrev = NoCall
    /\ TwoTierIdle
    /\ ProcIdle

QualifyVariant(f, v, ai_reply) ==
    /\ result # None
    /\ v # curLead[f]
    /\ curLead' = [curLead EXCEPT ![f] = v]
    /\ prevResult' = result
    /\ result' = Some(qualify_lead(config, clock, claude_client, ai_reply, curLead'))
    /\ UNCHANGED <<config, clock, claude_client, tierVars, twoTierVars, procVars>>

NextVary ==
    \/ \E ai_reply \in AiReplies(claude_client) : Qualify(ai_reply)
    \/ \E f \in LeadFields : \E v \in FieldValues(clock, f) :
          \E ai_reply \in AiReplies(claude_client) : QualifyVariant(f, v, ai_reply)

SpecVary == InitVary /\ [][NextVary]_vars

(***************************************************************************)
(* SpecTier: _determine_tier as a pure function.  Init draws the           *)
(* arguments; the actions call the function on them, on the same arguments *)
(* with another score, and on the same arguments with one more flag.       *)
(***************************************************************************)
TierFlags == { SafetyFlag("disputed_liability", "review"),
               SafetyFlag("commercial_vehicle", "block"),
               SafetyFlag("note", "info") }
TierFlagLists == { <<>> } \cup { <<f>> : f \in TierFlags }

TierCall(cfg, score, safety_flags, is_in_sc, sol_adequate) ==
    [ called       |-> TRUE,
      score        |-> score,
      safety_flags |-> safety_flags,
      is_in_sc     |-> is_in_sc,
      sol_adequate |-> sol_adequate,
      tier         |-> determine_tier(cfg, score, safety_flags, is_in_sc, sol_adequate) ]

TierArgs(score, safety_flags, is_in_sc, sol_adequate) ==
    [ called       |-> FALSE,
      score        |-> score,
      safety_flags |-> safety_flags,
      is_in_sc     |-> is_in_sc,
      sol_adequate |-> sol_adequate ]

InitTier ==
    /\ config \in QualificationConfigs
    /\ \E s \in 0..MaxScore, F \in TierFlagLists, g \in BOOLEAN, a \in BOOLEAN :
          dt = TierArgs(s, F, g, a)
    /\ dtPrev = NoCall
    /\ clock = 0
    /\ claude_client = FALSE
    /\ curLead = None
    /\ result = None
    /\ prevResult = None
    /\ TwoTierIdle
    /\ ProcIdle

\* first call of _determine_tier on the drawn arguments
Decide ==
    /\ ~dt.called
    /\ dt' = TierCall(config, dt.score, dt.safety_flags, dt.is_in_sc, dt.sol_adequate)
    /\ dtPrev' = NoCall
    /\ UNCHANGED <<config, ruleVars, twoTierVars, procVars>>

\* the same curLead facts with another score
Rescore(s) ==
    /\ dt.called
    /\ s # dt.score
    /\ dt' = TierCall(config, s, dt.safety_flags, dt.is_in_sc, dt.sol_adequate)
    /\ dtPrev' = dt
    /\ UNCHANGED <<config, ruleVars, twoTierVars, procVars>>

\* the same curLead facts with one more detected flag
AddFlag(f) ==
    /\ dt.called
    /\ Len(dt.safety_flags) < MaxFlags
    /\ dt' = TierCall(config, dt.score, Append(dt.safety_flags, f), dt.is_in_sc, dt.sol_adequate)
    /\ dtPrev' = dt
    /\ UNCHANGED <<config, ruleVars, twoTierVars, procVars>>

NextTier ==
    \/ Decide
    \/ \E s \in 0..MaxScore : Rescore(s)
    \/ \E f \in TierFlags : AddFlag(f)

SpecTier == InitTier /\ [][NextTier]_vars

(***************************************************************************)
(* Python values as the two-tier engine meets them: what json.loads        *)
(* returns, and what the engine's conversions do with it.  A value is a    *)
(* record tagged with its Python type.                                     *)
(***************************************************************************)
PyNone == [t |-> "NoneType"]
PyBool(b) == [t |-> "bool", v |-> b]
PyInt(n) == [t |-> "int", v |-> n]
\* a float keeps its integer part (what int() truncates to) and its digits
PyFloat(n, frac) == [t |-> "float", v |-> n, frac |-> frac]
PyStr(s) == [t |-> "str", v |-> s]
PyList(items) == [t |-> "list", v |-> items]
\* a dict is its items <<key, value>> in insertion order, keys distinct
PyDict(items) == [t |-> "dict", v |-> items]

\* the outcome of a Python expression: a value, or a raised exception
Ok(v) == [ok |-> TRUE, v |-> v]
Raise(exc) == [ok |-> FALSE, exc |-> exc]

(***************************************************************************)
(* json.loads on texts without string escapes and without exponents: a     *)
(* recursive-descent parser.  A parse step returns [ok, v, next] with next *)
(* the position after the value, or [ok |-> FALSE].                        *)
(***************************************************************************)
NoParse == [ok |-> FALSE]
Parsed(v, next) == [ok |-> TRUE, v |-> v, next |-> next]

IsDigit(c) == c \in {"0", "1", "2", "3", "4", "5", "6", "7", "8", "9"}
DigitVal(c) ==
    CASE c = "0" -> 0 [] c = "1" -> 1 [] c = "2" -> 2 [] c = "3" -> 3 [] c = "4" -> 4
      [] c = "5" -> 5 [] c = "6" -> 6 [] c = "7" -> 7 [] c = "8" -> 8 [] c = "9" -> 9

\* the number written by a string of digits
RECURSIVE DigitsVal(_)
DigitsVal(s) ==
    IF Len(s) = 0 THEN 0
    ELSE 10 * DigitsVal(SubSeq(s, 1, Len(s) - 1)) + DigitVal(SubSeq(s, Len(s), Len(s)))

\* the first position at or after i that holds no whitespace (Len(s)+1 if none)
SkipWs(s, i) ==
    CHOOSE j \in i..(Len(s) + 1) :
        /\ \A k \in i..(j - 1) : IsSpace(CharAt(s, k))
        /\ (j > Len(s) \/ ~IsSpace(CharAt(s, j)))

\* the first position at or after i that holds no digit
SkipDigits(s, i) ==
    CHOOSE j \in i..(Len(s) + 1) :
        /\ \A k \in i..(j - 1) : IsDigit(CharAt(s, k))
        /\ (j > Len(s) \/ ~IsDigit(CharAt(s, j)))

\* "..." starting at i: the closing quote is the next quote; a control
\* character inside the string is an error
ParseString(s, i) ==
    LET closing == { j \in (i + 1)..Len(s) : CharAt(s, j) = "\"" } IN
    IF closing = {} THEN NoParse
    ELSE LET j == CHOOSE a \in closing : \A b \in closing : a <= b IN
         IF \E k \in (i + 1)..(j - 1) : CharAt(s, k) \in {"\n", "\t", "\r", "\\"}
         THEN NoParse
         ELSE Parsed(SubSeq(s, i + 1, j - 1), j + 1)

\* -?(0|[1-9][0-9]*)(\.[0-9]+)? starting at i
ParseNumber(s, i) ==
    LET neg == CharAt(s, i) = "-"
        d == IF neg THEN i + 1 ELSE i
        e == IF d <= Len(s) /\ CharAt(s, d) = "0" THEN d + 1 ELSE SkipDigits(s, d)
        n == DigitsVal(SubSeq(s, d, e - 1))
        f == IF e < Len(s) /\ CharAt(s, e) = "." THEN SkipDigits(s, e + 1) ELSE e
    IN IF e = d THEN NoParse
       ELSE IF f > e + 1
            THEN Parsed(PyFloat(IF neg THEN 0 - n ELSE n, SubSeq(s, e + 1, f - 1)), f)
            ELSE Parsed(PyInt(IF neg THEN 0 - n ELSE n), e)

Literal(s, i, word) ==
    i + Len(word) - 1 <= Len(s) /\ SubSeq(s, i, i + Len(word) - 1) = word

\* dict[key] = value: a repeated key keeps its place and takes the new value
SetItem(items, key, value) ==
    IF \E n \in 1..Len(items) : items[n][1] = key
    THEN [ n \in 1..Len(items) |-> IF items[n][1] = key THEN <<key, value>> ELSE items[n] ]
    ELSE Append(items, <<key, value>>)

RECURSIVE ParseValue(_, _), ParseElements(_, _, _), ParseMembers(_, _, _)

\* the value that starts at position i (no whitespace at i)
ParseValue(s, i) ==
    IF i > Len(s) THEN NoParse
    ELSE IF CharAt(s, i) = "{" THEN
            IF SkipWs(s, i + 1) <= Len(s) /\ CharAt(s, SkipWs(s, i + 1)) = "}"
            THEN Parsed(PyDict(<<>>), SkipWs(s, i + 1) + 1)
            ELSE ParseMembers(s, SkipWs(s, i + 1), <<>>)
    ELSE IF CharAt(s, i) = "[" THEN
            IF SkipWs(s, i + 1) <= Len(s) /\ CharAt(s, SkipWs(s, i + 1)) = "]"
            THEN Parsed(PyList(<<>>), SkipWs(s, i + 1) + 1)
            ELSE ParseElements(s, SkipWs(s, i + 1), <<>>)
    ELSE IF CharAt(s, i) = "\"" THEN
            LET str == ParseString(s, i) IN
            IF str.ok THEN Parsed(PyStr(str.v), str.next) ELSE NoParse
    ELSE IF Literal(s, i, "null") THEN Parsed(PyNone, i + 4)
    ELSE IF Literal(s, i, "true") THEN Parsed(PyBool(TRUE), i + 4)
    ELSE IF Literal(s, i, "false") THEN Parsed(PyBool(FALSE), i + 5)
    ELSE IF CharAt(s, i) = "-" \/ IsDigit(CharAt(s, i)) THEN ParseNumber(s, i)
    ELSE NoParse

\* value (, value)* ]  with the first value at i
ParseElements(s, i, acc) ==
    LET item == ParseValue(s, i) IN
    IF ~item.ok THEN NoParse
    ELSE LET j == SkipWs(s, item.next) IN
         IF j > Len(s) THEN NoParse
         ELSE IF CharAt(s, j) = "]" THEN Parsed(PyList(Append(acc, item.v)), j + 1)
         ELSE IF CharAt(s, j) = "," THEN ParseElements(s, SkipWs(s, j + 1), Append(acc, item.v))
         ELSE NoParse

\* "key" : value (, "key" : value)* }  with the first key at i
ParseMembers(s, i, acc) ==
    IF i > Len(s) \/ CharAt(s, i) # "\"" THEN NoParse
    ELSE LET key == ParseString(s, i) IN
         IF ~key.ok THEN NoParse
         ELSE LET c == SkipWs(s, key.next) IN
              IF c > Len(s) \/ CharAt(s, c) # ":" THEN NoParse
              ELSE LET item == ParseValue(s, SkipWs(s, c + 1)) IN
                   IF ~item.ok THEN NoParse
                   ELSE LET j == SkipWs(s, item.next) IN
                        IF j > Len(s) THEN NoParse
                        ELSE IF CharAt(s, j) = "}"
                             THEN Parsed(PyDict(SetItem(acc, key.v, item.v)), j + 1)
                        ELSE IF CharAt(s, j) = ","
                             THEN ParseMembers(s, SkipWs(s, j + 1), SetItem(acc, key.v, item.v))
                        ELSE NoParse

\* json.loads(text): one value with whitespace around it, or JSONDecodeError
json_loads(text) ==
    LET parsed == ParseValue(text, SkipWs(text, 1)) IN
    IF parsed.ok /\ SkipWs(text, parsed.next) > Len(text) THEN Ok(parsed.v)
    ELSE Raise("JSONDecodeError")

(***************************************************************************)
(* Python built-ins applied to parsed values                               *)
(***************************************************************************)
\* int(str): optional whitespace and sign around decimal digits
int_of_str(text) ==
    LET body == strip(text)
        signed == Len(body) > 0 /\ CharAt(body, 1) \in {"-", "+"}
        digits == IF signed THEN SubSeq(body, 2, Len(body)) ELSE body
    IN IF Len(digits) > 0 /\ \A k \in 1..Len(digits) : IsDigit(CharAt(digits, k))
       THEN Ok(IF signed /\ CharAt(body, 1) = "-" THEN 0 - DigitsVal(digits)
               ELSE DigitsVal(digits))
       ELSE Raise("ValueError")

\* int(x)
py_int(x) ==
    CASE x.t = "int" -> Ok(x.v)
      [] x.t = "float" -> Ok(x.v)
      [] x.t = "bool" -> Ok(IF x.v THEN 1 ELSE 0)
      [] x.t = "str" -> int_of_str(x.v)
      [] OTHER -> Raise("TypeError")

\* x.upper()
py_upper(x) == IF x.t = "str" THEN Ok(upper(x.v)) ELSE Raise("AttributeError")

\* len(x)
py_len(x) ==
    IF x.t \in {"list", "str", "dict"} THEN Ok(Len(x.v)) ELSE Raise("TypeError")

\* bool(x), as in `if x`
py_bool(x) ==
    CASE x.t = "NoneType" -> FALSE
      [] x.t = "bool" -> x.v
      [] x.t = "int" -> x.v # 0
      [] x.t = "float" -> x.v # 0 \/ \E k \in 1..Len(x.frac) : CharAt(x.frac, k) # "0"
      [] OTHER -> Len(x.v) > 0

\* d.get(key, default) on a dict d
Get(d, key, default) ==
    IF \E n \in 1..Len(d.v) : d.v[n][1] = key
    THEN d.v[CHOOSE n \in 1..Len(d.v) : d.v[n][1] = key][2]
    ELSE default

\* x.get(key, default) on any value: only a dict has .get
py_get(x, key, default) ==
    IF x.t = "dict" THEN Ok(Get(x, key, default)) ELSE Raise("AttributeError")

\* sep.join(strs) for a sequence of strings
RECURSIVE JoinWith(_, _)
JoinWith(sep, strs) ==
    IF Len(strs) = 0 THEN ""
    ELSE IF Len(strs) = 1 THEN strs[1]
    ELSE strs[1] \o sep \o JoinWith(sep, Tail(strs))

\* sep.join(x): x must be iterable and yield only str
py_join(sep, x) ==
    CASE x.t = "list" ->
             IF \A n \in 1..Len(x.v) : x.v[n].t = "str"
             THEN Ok(JoinWith(sep, [ n \in 1..Len(x.v) |-> x.v[n].v ]))
             ELSE Raise("TypeError")
      [] x.t = "str" -> Ok(JoinWith(sep, [ n \in 1..Len(x.v) |-> CharAt(x.v, n) ]))
      [] x.t = "dict" -> Ok(JoinWith(sep, [ n \in 1..Len(x.v) |-> x.v[n][1] ]))
      [] OTHER -> Raise("TypeError")

(***************************************************************************)
(* The cleaning of a provider response (chatgpt_scorer.py:221-227 and      *)
(* claude_analyzer.py:317-323).  A TLA+ string cannot hold the backquote,  *)
(* so the fence marker of the source (three backquotes) is written with    *)
(* three apostrophes; neither character means anything to json.loads.      *)
(***************************************************************************)
Fence == "'''"

\* s.split("\n", 1)[1]: the text after the first newline
split_newline_1(s) ==
    LET nl == { k \in 1..Len(s) : CharAt(s, k) = "\n" } IN
    IF nl = {} THEN Raise("IndexError")
    ELSE Ok(SubSeq(s, (CHOOSE a \in nl : \A b \in nl : a <= b) + 1, Len(s)))

\* s.rsplit(Fence, 1)[0] for s ending with the fence: the text before it
rsplit_fence_0(s) == SubSeq(s, 1, Len(s) - Len(Fence))

\* raw_response is Optional text; None has no .strip()
clean_response(raw_response) ==
    IF raw_response = None THEN Raise("AttributeError")
    ELSE LET stripped == strip(Val(raw_response))
             opened == IF startswith(stripped, Fence) THEN split_newline_1(stripped)
                       ELSE Ok(stripped)
         IN IF ~opened.ok THEN opened
            ELSE Ok(strip(IF endswith(opened.v, Fence) THEN rsplit_fence_0(opened.v)
                          ELSE opened.v))

(***************************************************************************)
(* ScoringThresholds (config.py:107-121) and Recommendation                *)
(* (chatgpt_scorer.py:21-26)                                               *)
(***************************************************************************)
DefaultScoringThresholds == [fast_track |-> 75, claude_review |-> 50, need_info |-> 25]

\* from_env reads the three thresholds independently; nothing orders them
ScoringThresholdSets ==
    { DefaultScoringThresholds,
      [fast_track |-> 80, claude_review |-> 60, need_info |-> 40],
      [fast_track |-> 50, claude_review |-> 75, need_info |-> 25] }

FAST_TRACK == "FAST-TRACK"
CLAUDE_REVIEW == "CLAUDE-REVIEW"
DECLINE == "DECLINE"
NEED_INFO == "NEED-INFO"

(***************************************************************************)
(* ChatGPTScorer._determine_recommendation (chatgpt_scorer.py:275-293).    *)
(* missing_info is whatever the response held; len() of it is taken only   *)
(* where Python's `and` reaches it, and may raise.                         *)
(***************************************************************************)
\* mutant: the provider's label is consulted before the review threshold
determine_recommendation_label_first(th, score, gpt_recommendation, missing_info) ==
    IF score >= th.fast_track THEN Ok(FAST_TRACK)
    ELSE IF gpt_recommendation = "NEED-INFO" /\ py_len(missing_info).ok
            /\ py_len(missing_info).v > 0 THEN Ok(NEED_INFO)
    ELSE IF score >= th.claude_review THEN Ok(CLAUDE_REVIEW)
    ELSE IF score >= th.need_info /\ py_len(missing_info).ok
            /\ py_len(missing_info).v > 0 THEN Ok(NEED_INFO)
    ELSE Ok(DECLINE)

determine_recommendation(th, score, gpt_recommendation, missing_info) ==
    IF score >= th.fast_track THEN Ok(FAST_TRACK)
    ELSE IF score >= th.claude_review THEN Ok(CLAUDE_REVIEW)
    ELSE IF score >= th.need_info /\ ~py_len(missing_info).ok THEN py_len(missing_info)
    ELSE IF score >= th.need_info /\ py_len(missing_info).v > 0 THEN Ok(NEED_INFO)
    ELSE IF gpt_recommendation = "NEED-INFO" /\ ~py_len(missing_info).ok
         THEN py_len(missing_info)
    ELSE IF gpt_recommendation = "NEED-INFO" /\ py_len(missing_info).v > 0
         THEN Ok(NEED_INFO)
    ELSE Ok(DECLINE)

(***************************************************************************)
(* ChatGPTScorer._parse_response (chatgpt_scorer.py:218-273).  Returns     *)
(* Ok(ChatGPTScoringResult), or Raise(exc) for an exception that the       *)
(* method does not catch (it catches json.JSONDecodeError only).           *)
(***************************************************************************)
ComponentKeys ==
    << "incident_type", "injury_severity", "liability", "insurance", "sol", "geographic" >>

\* the conservative result of the JSONDecodeError handler (lines 256-273)
gpt_parse_error_result ==
    [ score |-> 0,
      recommendation |-> CLAUDE_REVIEW,
      analysis |-> PyStr("Failed to parse scoring response. Escalating to Claude."),
      red_flags |-> PyList(<< PyStr("Parse error - response was not valid JSON") >>),
      confidence |-> 0,
      component_scores |-> [ n \in 1..6 |-> 0 ],
      raw_response |-> None ]

\* lines 231-254, on the value json.loads returned
gpt_result_of_data(th, data) ==
    LET components == py_get(data, "component_scores", PyDict(<<>>))
        score == py_int(Get(data, "score", PyInt(0)))
        rec_str == py_upper(Get(data, "recommendation", PyStr("CLAUDE-REVIEW")))
        missing_info == Get(data, "missing_information", PyList(<<>>))
        recommendation == determine_recommendation(th, score.v, rec_str.v, missing_info)
        confidence == py_int(Get(data, "confidence", PyInt(50)))
        parts == [ n \in 1..6 |-> IF components.v.t = "dict"
                                  THEN py_int(Get(components.v, ComponentKeys[n], PyInt(0)))
                                  ELSE Raise("AttributeError") ]
        failed == { n \in 1..6 : ~parts[n].ok }
    IN IF ~components.ok THEN components
       ELSE IF ~score.ok THEN score
       ELSE IF ~rec_str.ok THEN rec_str
       ELSE IF ~recommendation.ok THEN recommendation
       ELSE IF ~confidence.ok THEN confidence
       ELSE IF failed # {} THEN parts[CHOOSE n \in failed : \A m \in failed : n <= m]
       ELSE Ok([ score |-> score.v,
                 recommendation |-> recommendation.v,
                 analysis |-> Get(data, "analysis", PyStr("No analysis provided")),
                 red_flags |-> Get(data, "red_flags", PyList(<<>>)),
                 confidence |-> confidence.v,
                 component_scores |-> [ n \in 1..6 |-> parts[n].v ],
                 raw_response |-> None ])

ChatGPTScorer_parse_response(th, raw_response) ==
    LET cleaned == clean_response(raw_response) IN
    IF ~cleaned.ok THEN cleaned
    ELSE IF ~json_loads(cleaned.v).ok THEN Ok(gpt_parse_error_result)
    ELSE gpt_result_of_data(th, json_loads(cleaned.v).v)

(***************************************************************************)
(* ChatGPTScorer.score_lead (chatgpt_scorer.py:144-191).  reply is what    *)
(* the completion call does: it raises, or it returns a message whose      *)
(* content is an Optional text.  Every exception ends in the conservative  *)
(* result of lines 174-191 (its analysis text without the exception's      *)
(* message, which nothing reads).                                          *)
(***************************************************************************)
ApiError == [raises |-> TRUE]
ApiContent(content) == [raises |-> FALSE, content |-> content]

gpt_failure_result ==
    [ score |-> 0,
      recommendation |-> CLAUDE_REVIEW,
      analysis |-> PyStr("ChatGPT scoring failed. Escalating to Claude for manual review."),
      red_flags |-> PyList(<< PyStr("API Error - scoring failed") >>),
      confidence |-> 0,
      component_scores |-> [ n \in 1..6 |-> 0 ],
      raw_response |-> None ]

\* mutant: a failed scoring is declined instead of escalated
score_lead_failure_declines(th, reply) ==
    IF reply.raises \/ ~ChatGPTScorer_parse_response(th, reply.content).ok
    THEN [gpt_failure_result EXCEPT !.recommendation = DECLINE]
    ELSE [ChatGPTScorer_parse_response(th, reply.content).v
             EXCEPT !.raw_response = reply.content]

ChatGPTScorer_score_lead(th, reply) ==
    IF reply.raises \/ ~ChatGPTScorer_parse_response(th, reply.content).ok
    THEN gpt_failure_result
    ELSE [ChatGPTScorer_parse_response(th, reply.content).v
             EXCEPT !.raw_response = reply.content]

(***************************************************************************)
(* ClaudeAnalyzer._parse_response (claude_analyzer.py:314-352).  Returns   *)
(* Ok(ClaudeAnalysisResult), or Raise(exc) for an exception other than     *)
(* json.JSONDecodeError.                                                   *)
(***************************************************************************)
\* raw_response[:2000]
Head2000(text) == SubSeq(text, 1, IF Len(text) < 2000 THEN Len(text) ELSE 2000)

\* the result of the JSONDecodeError handler (lines 339-352)
claude_parse_error_result(raw_response) ==
    [ deep_analysis |-> IF Truthy(raw_response) THEN PyStr(Head2000(Val(raw_response)))
                        ELSE PyStr("Parse error"),
      case_comparisons |-> PyStr("Unable to parse structured response"),
      carrier_strategy |-> PyStr("Manual review required"),
      missing_gaps |-> PyList(<< PyStr("Response parsing failed") >>),
      recommended_questions |-> PyList(<<>>),
      final_recommendation |-> PyStr("Need More Info"),
      confidence |-> 0,
      estimated_value_range |-> PyNone,
      negotiation_notes |-> PyNone,
      raw_response |-> None ]

\* lines 327-337, on the value json.loads returned
claude_result_of_data(data) ==
    LET confidence == py_int(Get(data, "confidence", PyInt(50))) IN
    IF data.t # "dict" THEN Raise("AttributeError")
    ELSE IF ~confidence.ok THEN confidence
    ELSE Ok([ deep_analysis |-> Get(data, "deep_analysis", PyStr("No analysis provided")),
              case_comparisons |-> Get(data, "case_comparisons",
                                       PyStr("No comparisons available")),
              carrier_strategy |-> Get(data, "carrier_strategy",
                                       PyStr("Standard approach recommended")),
              missing_gaps |-> Get(data, "missing_gaps", PyList(<<>>)),
              recommended_questions |-> Get(data, "recommended_questions", PyList(<<>>)),
              final_recommendation |-> Get(data, "final_recommendation",
                                           PyStr("Need More Info")),
              confidence |-> confidence.v,
              estimated_value_range |-> Get(data, "estimated_value_range", PyNone),
              negotiation_notes |-> Get(data, "negotiation_notes", PyNone),
              raw_response |-> None ])

ClaudeAnalyzer_parse_response(raw_response) ==
    LET cleaned == clean_response(raw_response) IN
    IF ~cleaned.ok THEN cleaned
    ELSE IF ~json_loads(cleaned.v).ok THEN Ok(claude_parse_error_result(raw_response))
    ELSE claude_result_of_data(json_loads(cleaned.v).v)

(***************************************************************************)
(* ClaudeAnalyzer.analyze_lead (claude_analyzer.py:157-212), with no Drive *)
(* searcher configured (create_drive_searcher returns None without a       *)
(* credentials file, google_drive_search.py:290-294).  The prompt is       *)
(* formatted before the try block: joining gpt_result.red_flags (line 176) *)
(* raises past analyze_lead.  Inside the try block every exception ends in *)
(* the result of lines 201-212.                                            *)
(***************************************************************************)
claude_failure_result ==
    [ deep_analysis |-> PyStr("Claude analysis failed"),
      case_comparisons |-> PyStr("Unable to retrieve case comparisons due to API error."),
      carrier_strategy |-> PyStr("Manual review required."),
      missing_gaps |-> PyList(<< PyStr("Unable to complete analysis") >>),
      recommended_questions |-> PyList(<<>>),
      final_recommendation |-> PyStr("Need More Info"),
      confidence |-> 0,
      estimated_value_range |-> PyNone,
      negotiation_notes |-> PyNone,
      raw_response |-> None ]

\* gpt_red_flags of the prompt (line 176)
prompt_red_flags(gpt_result) ==
    IF py_bool(gpt_result.red_flags) THEN py_join(", ", gpt_result.red_flags)
    ELSE Ok("None")

\* mutant: a failed analysis keeps the default confidence of a parsed one
analyze_lead_failure_confident(gpt_result, reply) ==
    IF ~prompt_red_flags(gpt_result).ok THEN prompt_red_flags(gpt_result)
    ELSE IF reply.raises \/ ~ClaudeAnalyzer_parse_response(reply.content).ok
         THEN Ok([claude_failure_result EXCEPT !.confidence = 50])
    ELSE Ok([ClaudeAnalyzer_parse_response(reply.content).v
                EXCEPT !.raw_response = reply.content])

ClaudeAnalyzer_analyze_lead(gpt_result, reply) ==
    IF ~prompt_red_flags(gpt_result).ok THEN prompt_red_flags(gpt_result)
    ELSE IF reply.raises \/ ~ClaudeAnalyzer_parse_response(reply.content).ok
         THEN Ok(claude_failure_result)
    ELSE Ok([ClaudeAnalyzer_parse_response(reply.content).v
                EXCEPT !.raw_response = reply.content])

(***************************************************************************)
(* TwoTierResult (qualifier.py:677-697) and TwoTierQualifier.qualify_lead  *)
(* (qualifier.py:765-821).  The outcome is a returned TwoTierResult or a   *)
(* raised exception; claude_calls counts the calls of analyze_lead.        *)
(***************************************************************************)
\* mutant: claude_triggered starts out true
TwoTierResult_triggered_by_default(gpt_result) ==
    [ chatgpt_score |-> gpt_result.score,
      chatgpt_recommendation |-> gpt_result.recommendation,
      chatgpt_analysis |-> gpt_result.analysis,
      chatgpt_red_flags |-> gpt_result.red_flags,
      chatgpt_confidence |-> gpt_result.confidence,
      claude_triggered |-> TRUE,
      claude_analysis |-> PyNone,
      claude_case_comparisons |-> PyNone,
      claude_carrier_strategy |-> PyNone,
      claude_recommendation |-> PyNone,
      claude_confidence |-> None,
      final_decision |-> PyStr(""),
      final_confidence |-> 0 ]

\* TwoTierResult(...) of lines 777-784, the other fields at their defaults
TwoTierResult(gpt_result) ==
    [ chatgpt_score |-> gpt_result.score,
      chatgpt_recommendation |-> gpt_result.recommendation,
      chatgpt_analysis |-> gpt_result.analysis,
      chatgpt_red_flags |-> gpt_result.red_flags,
      chatgpt_confidence |-> gpt_result.confidence,
      claude_triggered |-> FALSE,
      claude_analysis |-> PyNone,
      claude_case_comparisons |-> PyNone,
      claude_carrier_strategy |-> PyNone,
      claude_recommendation |-> PyNone,
      claude_confidence |-> None,
      final_decision |-> PyStr(""),
      final_confidence |-> 0 ]

Returned(r, claude_calls) == [raised |-> FALSE, result |-> r, claude_calls |-> claude_calls]
Raised(exc, claude_calls) == [raised |-> TRUE, exc |-> exc, claude_calls |-> claude_calls]

\* the FAST-TRACK, NEED-INFO and DECLINE branches (lines 788-791, 810-818)
decided(r, gpt_result, decision) ==
    [r EXCEPT !.final_decision = PyStr(decision),
              !.final_confidence = gpt_result.confidence]

\* mutant: the final confidence stays the Tier-1 confidence
escalated_keeps_tier1_confidence(r, claude_result) ==
    [r EXCEPT !.claude_triggered = TRUE,
              !.claude_analysis = claude_result.deep_analysis,
              !.claude_case_comparisons = claude_result.case_comparisons,
              !.claude_carrier_strategy = claude_result.carrier_strategy,
              !.claude_recommendation = claude_result.final_recommendation,
              !.claude_confidence = Some(claude_result.confidence),
              !.final_decision = claude_result.final_recommendation,
              !.final_confidence = r.chatgpt_confidence]

\* the CLAUDE-REVIEW branch once analyze_lead has returned (lines 795, 800-808)
escalated(r, claude_result) ==
    [r EXCEPT !.claude_triggered = TRUE,
              !.claude_analysis = claude_result.deep_analysis,
              !.claude_case_comparisons = claude_result.case_comparisons,
              !.claude_carrier_strategy = claude_result.carrier_strategy,
              !.claude_recommendation = claude_result.final_recommendation,
              !.claude_confidence = Some(claude_result.confidence),
              !.final_decision = claude_result.final_recommendation,
              !.final_confidence = claude_result.confidence]

\* lines 787-821, on the Tier-1 result
route(gpt_result, claude_reply) ==
    LET r == TwoTierResult(gpt_result)
        claude_result == ClaudeAnalyzer_analyze_lead(gpt_result, claude_reply)
    IN IF gpt_result.recommendation = FAST_TRACK
       THEN Returned(decided(r, gpt_result, "Accept"), 0)
       ELSE IF gpt_result.recommendation = CLAUDE_REVIEW
       THEN IF ~claude_result.ok THEN Raised(claude_result.exc, 1)
            ELSE Returned(escalated(r, claude_result.v), 1)
       ELSE IF gpt_result.recommendation = NEED_INFO
       THEN Returned(decided(r, gpt_result, "Need More Info"), 0)
       ELSE Returned(decided(r, gpt_result, "Decline"), 0)

TwoTierQualifier_qualify_lead(th, gpt_reply, claude_reply) ==
    route(ChatGPTScorer_score_lead(th, gpt_reply), claude_reply)

(***************************************************************************)
(* TwoTierQualifier.get_status_for_decision (qualifier.py:823-830)         *)
(***************************************************************************)
get_status_for_decision(decision) ==
    CASE decision = PyStr("Accept") -> "Accepted"
      [] decision = PyStr("Decline") -> "Declined"
      [] decision = PyStr("Need More Info") -> "Need More Info"
      [] OTHER -> "In Review"

(***************************************************************************)
(* Provider responses.  The texts cover what the parsers distinguish: no   *)
(* JSON, JSON that is not an object, fenced JSON, objects with fields      *)
(* missing, null or of another type, and scores around the thresholds.     *)
(***************************************************************************)
GptTexts ==
    { "not json",
      "[]",
      "5",
      "null",
      "\"FAST-TRACK\"",
      "{}",
      "{\"score\": 80}",
      "{\"score\": \"80\"}",
      "{\"score\": \" 80 \"}",
      "{\"score\": \"abc\"}",
      "{\"score\": null}",
      "{\"score\": true}",
      "{\"score\": 72.9}",
      "{\"score\": -5}",
      "{\"score\": 150, \"confidence\": 200}",
      "{\"score\": 60, \"confidence\": \"high\"}",
      "{\"score\": 60, \"confidence\": 66}",
      "{\"score\": 60, \"confidence\": null}",
      "{\"score\": 60, \"red_flags\": [1]}",
      "{\"score\": 60, \"red_flags\": 5}",
      "{\"score\": 60, \"red_flags\": null}",
      "{\"score\": 60, \"red_flags\": []}",
      "{\"score\": 60, \"red_flags\": [\"SOL close\", \"prior claim\"]}",
      "{\"score\": 60, \"red_flags\": \"gap in treatment\"}",
      "{\"score\": 60, \"red_flags\": {\"a\": 1}}",
      "{\"score\": 60, \"red_flags\": [\"ok\", null]}",
      "{\"score\": 30, \"missing_information\": [\"insurance carrier\"]}",
      "{\"score\": 30, \"missing_information\": null}",
      "{\"score\": 30, \"missing_information\": \"carrier\"}",
      "{\"score\": 30, \"missing_information\": 3}",
      "{\"score\": 30}",
      "{\"score\": 60, \"missing_information\": null}",
      "{\"score\": 10, \"recommendation\": \"need-info\", \"missing_information\": [\"x\"]}",
      "{\"score\": 10, \"recommendation\": \"NEED-INFO\"}",
      "{\"score\": 10, \"recommendation\": \"NEED-INFO\", \"missing_information\": 7}",
      "{\"score\": 10, \"recommendation\": null}",
      "{\"score\": 10, \"recommendation\": 4}",
      "{\"score\": 10, \"recommendation\": \"FAST-TRACK\", \"missing_information\": 7}",
      "'''json",
      "'''",
      "'''json\n{\"score\": 80}\n'''",
      "'''\n{\"score\": 80}'''",
      "  '''json\n{\"score\": 55, \"confidence\": 61}\n'''  \n",
      "{\"score\": 80}'''",
      "'''json\n'''",
      "'''json\n{\"score\": 80}",
      "{\"score\": 80, \"component_scores\": {\"incident_type\": 25, \"liability\": \"20\"}}",
      "{\"score\": 80, \"component_scores\": []}",
      "{\"score\": 80, \"component_scores\": {\"sol\": \"x\"}}",
      "{\"score\": 80, \"component_scores\": null}",
      "{\"score\": 80, \"analysis\": \"Clear MVA\", \"confidence\": 90, \"recommendation\": \"FAST-TRACK\"}",
      "{\"score\": 80, \"analysis\": null}",
      "{\"score\": 75}",
      "{\"score\": 74}",
      "{\"score\": 50}",
      "{\"score\": 49, \"missing_information\": [\"x\"]}",
      "{\"score\": 25, \"missing_information\": [\"x\"]}",
      "{\"score\": 24, \"missing_information\": [\"x\"]}",
      "{\"score\": 40, \"recommendation\": \"NEED-INFO\", \"missing_information\": {\"a\": 1}}",
      "{\"score\": 80, \"score\": 10}",
      "{\"score\": 0}",
      "{\"score\": 30, \"confidence\": 70, \"missing_information\": [\"insurance carrier\"]}",
      "{\"score\": 20, \"confidence\": 85, \"recommendation\": \"DECLINE\"}" }

ClaudeTexts ==
    { "not json",
      "[]",
      "{}",
      "{\"confidence\": 90}",
      "{\"final_recommendation\": \"Accept\", \"confidence\": 80}",
      "{\"final_recommendation\": \"Maybe\", \"confidence\": 70}",
      "{\"final_recommendation\": null}",
      "{\"final_recommendation\": 5, \"confidence\": \"77\"}",
      "{\"confidence\": \"x\"}",
      "{\"confidence\": null}",
      "'''",
      "'''json\n{\"final_recommendation\": \"Decline\", \"confidence\": 85, \"deep_analysis\": \"Weak liability\", \"case_comparisons\": \"none\", \"carrier_strategy\": \"litigate\"}\n'''",
      "{\"final_recommendation\": \"Accept\", \"confidence\": 150}",
      "",
      "{\"deep_analysis\": null, \"missing_gaps\": 3}" }

\* what a provider call can do: raise, or return None or a text as content
Replies(texts) == { ApiError, ApiContent(None) } \cup { ApiContent(Some(t)) : t \in texts }
GptReplies == Replies(GptTexts)
ClaudeReplies == Replies(ClaudeTexts)

(***************************************************************************)
(* SpecRecommend: _determine_recommendation on arbitrary arguments.        *)
(* Determine makes the call on the arguments Init drew; Relabel makes it   *)
(* again with another provider label.                                      *)
(***************************************************************************)
MaxGptScore == 100      \* Tier-1 scores: 0..MaxGptScore

\* rec_str: the provider's label, upper-cased by _parse_response
Labels == { "FAST-TRACK", "CLAUDE-REVIEW", "DECLINE", "NEED-INFO", "MAYBE" }
MissingLists == { PyList(<<>>), PyList(<< PyStr("insurance carrier") >>) }

RecommendArgs(score, gpt_recommendation, missing_info) ==
    [ called |-> FALSE,
      score |-> score,
      gpt_recommendation |-> gpt_recommendation,
      missing_info |-> missing_info ]

RecommendCall(th, score, gpt_recommendation, missing_info) ==
    [ called |-> TRUE,
      score |-> score,
      gpt_recommendation |-> gpt_recommendation,
      missing_info |-> missing_info,
      recommendation |-> determine_recommendation(th, score, gpt_recommendation, missing_info) ]

\* the rule engine is not constructed in the specifications of the two-tier engine
RuleIdle ==
    /\ config = None
    /\ dt = NoCall
    /\ dtPrev = NoCall
    /\ clock = 0
    /\ claude_client = FALSE
    /\ curLead = None
    /\ result = None
    /\ prevResult = None

InitRecommend ==
    /\ thresholds \in ScoringThresholdSets
    /\ \E s \in 0..MaxGptScore, l \in Labels, m \in MissingLists : dr = RecommendArgs(s, l, m)
    /\ drPrev = NoCall
    /\ gptReply = None
    /\ claudeReply = None
    /\ twoTier = None
    /\ RuleIdle
    /\ ProcIdle

Determine ==
    /\ ~dr.called
    /\ dr' = RecommendCall(thresholds, dr.score, dr.gpt_recommendation, dr.missing_info)
    /\ drPrev' = NoCall
    /\ UNCHANGED <<config, tierVars, ruleVars, thresholds, gptReply, claudeReply, twoTier, procVars>>

Relabel(l) ==
    /\ dr.called
    /\ l # dr.gpt_recommendation
    /\ dr' = RecommendCall(thresholds, dr.score, l, dr.missing_info)
    /\ drPrev' = dr
    /\ UNCHANGED <<config, tierVars, ruleVars, thresholds, gptReply, claudeReply, twoTier, procVars>>

NextRecommend ==
    \/ Determine
    \/ \E l \in Labels : Relabel(l)

SpecRecommend == InitRecommend /\ [][NextRecommend]_vars

(***************************************************************************)
(* SpecTwoTier: TwoTierQualifier.qualify_lead.  Init draws the thresholds  *)
(* and what the two providers will answer; QualifyTwoTier runs the engine. *)
(* The outcomes are tabulated so that each response is parsed once.        *)
(***************************************************************************)
TwoTierOutcome ==
    [ th \in ScoringThresholdSets, g \in GptReplies, c \in ClaudeReplies |->
        TwoTierQualifier_qualify_lead(th, g, c) ]

InitTwoTier ==
    /\ thresholds \in ScoringThresholdSets
    /\ gptReply \in GptReplies
    /\ claudeReply \in ClaudeReplies
    /\ twoTier = None
    /\ dr = NoCall
    /\ drPrev = NoCall
    /\ RuleIdle
    /\ ProcIdle

QualifyTwoTier ==
    /\ twoTier = None
    /\ twoTier' = Some(TwoTierOutcome[thresholds, gptReply, claudeReply])
    /\ UNCHANGED <<config, tierVars, ruleVars, thresholds, dr, drPrev, gptReply, claudeReply, procVars>>

NextTwoTier == QualifyTwoTier

SpecTwoTier == InitTwoTier /\ [][NextTwoTier]_vars

(***************************************************************************)
(* ProcessedLead and ProcessingHistory (main.py:26-57).  Of a ProcessedLead*)
(* the model keeps the fields that tell entries apart; name is fixed by    *)
(* record_id, timestamp is the time of the call, injury_type and county    *)
(* are copied from the QualificationResult.                                *)
(***************************************************************************)
ProcessedLead(record_id, tier, score, status, clio_matter_url, error) ==
    [ record_id       |-> record_id,
      tier            |-> tier,
      score           |-> score,
      status          |-> status,
      clio_matter_url |-> clio_matter_url,
      error           |-> error ]

\* mutant: on overflow the slice keeps the tail, dropping the newest entry
ProcessingHistory_add_keeps_tail(h, size, lead) ==
    LET inserted == <<lead>> \o h
    IN  IF Len(inserted) > size
        THEN SubSeq(inserted, Len(inserted) - size + 1, Len(inserted))
        ELSE inserted

\* ProcessingHistory.add (main.py:49-53): insert(0, lead), then keep the
\* first max_size entries
ProcessingHistory_add(h, size, lead) ==
    LET inserted == <<lead>> \o h
    IN  IF Len(inserted) > size THEN SubSeq(inserted, 1, size) ELSE inserted

(***************************************************************************)
(* SpecHistory: a ProcessingHistory of capacity max_size under a sequence  *)
(* of add calls; added logs the entries handed to add.                     *)
(***************************************************************************)
MaxSize == 3            \* capacities 1..MaxSize (the default is 100)
MaxAdds == 5            \* longest sequence of add calls

RecordIds == {"recA", "recB", "recC"}

HistoryEntries ==
    { ProcessedLead(r, TIER_2_REVIEW, 9, "In Review", None, None) : r \in RecordIds }
    \cup { ProcessedLead("recA", "error", 0, "In Review", None, Some("boom")) }

InitHistory ==
    /\ history = <<>>
    /\ max_size \in 1..MaxSize
    /\ added = <<>>
    /\ DaemonIdle
    /\ creds = None
    /\ ReadIdle
    /\ RuleIdle
    /\ TwoTierIdle

Add(lead) ==
    /\ Len(added) < MaxAdds
    /\ history' = ProcessingHistory_add(history, max_size, lead)
    /\ added' = Append(added, lead)
    /\ UNCHANGED <<config, tierVars, ruleVars, twoTierVars, max_size, daemonVars, creds, readVars>>

NextHistory == \E lead \in HistoryEntries : Add(lead)

SpecHistory == InitHistory /\ [][NextHistory]_vars

(***************************************************************************)
(* LeadProcessor.process_lead (main.py:136-322).                           *)
(*                                                                         *)
(* The external calls of one process_lead are logged in the order they are *)
(* made.  What they do is drawn per call of process_lead:                  *)
(*   qualify   the QualificationResult of qualifier.qualify_lead, or None  *)
(*             when it raises                                              *)
(*   fallback  the same for qualify_lead_fallback                          *)
(*   airtable  "ok": update_lead returns True; "fail": it catches a        *)
(*             RequestException and returns False (airtable_client.py:     *)
(*             235-237); "raise": any other exception, which it lets out   *)
(*   clio      "ok": create_matter returns a matter; "none": it returns    *)
(*             None; "raise": it raises                                    *)
(*   email     "ok"/"fail": send_email returns True/False; "raise": the    *)
(*             service property raises before the try block of send_email  *)
(*             (email_handler.py:87-100, 48-85)                            *)
(*   interrupt the number of the external call during which SIGINT raises  *)
(*             KeyboardInterrupt in the thread (0: none); only where no    *)
(*             signal handler replaces the default one (run_local.py)      *)
(* KeyboardInterrupt is not an Exception: no except clause of main.py      *)
(* catches it below run_daemon.                                            *)
(***************************************************************************)
NoExc == "none"
Exception == "Exception"
KeyboardInterrupt == "KeyboardInterrupt"

\* the state of one process_lead: the calls made so far, the exception in
\* flight, the Status that update_lead wrote to the record (None: nothing
\* written) and whether Clio created a matter
Started(interrupt) ==
    [calls |-> <<>>, exc |-> NoExc, interrupt |-> interrupt, written |-> None, matter |-> FALSE]

\* an external call made when cond holds and no exception is in flight
Step(st, cond, name, raises) ==
    IF st.exc # NoExc \/ ~cond THEN st
    ELSE [st EXCEPT !.calls = Append(st.calls, name),
                    !.exc = IF Len(st.calls) + 1 = st.interrupt THEN KeyboardInterrupt
                            ELSE IF raises THEN Exception ELSE NoExc]

\* AirtableClient.update_lead (airtable_client.py:208-237) called when cond
\* holds: the PATCH writes the field Status unless the request fails
Update(st, cond, name, env, status) ==
    LET called == Step(st, cond, name, env.airtable = "raise")
    IN  IF called.calls # st.calls /\ called.exc = NoExc /\ env.airtable = "ok"
        THEN [called EXCEPT !.written = Some(status)]
        ELSE called

\* except Exception
Catch(st) == IF st.exc = Exception THEN [st EXCEPT !.exc = NoExc] ELSE st

\* LeadProcessor._tier_to_status (main.py:195-202)
tier_to_status(tier) ==
    IF tier = TIER_1_AUTO_ACCEPT THEN "Accepted"
    ELSE IF tier = TIER_2_REVIEW THEN "In Review"
    ELSE "Declined"

ClioUrl(record_id) == "https://app.clio.com/matters/" \o record_id

\* LeadProcessor._handle_tier1 (main.py:204-265)
handle_tier1(cfg, lead, env, st) ==
    LET updated  == Update(st, TRUE, "update_lead", env, "Accepted")
        reported == Step(updated, env.airtable = "fail" /\ cfg.email_enabled,
                         "send_error_notification", env.email = "raise")
        \* try (main.py:229-250)
        created  == Step(reported, cfg.clio_enabled, "create_matter", env.clio = "raise")
        missing  == Step(created, cfg.clio_enabled /\ env.clio = "none" /\ cfg.email_enabled,
                         "send_error_notification", env.email = "raise")
        \* except Exception (main.py:251-257)
        caught   == cfg.clio_enabled /\ reported.exc = NoExc /\ missing.exc = Exception
        handled  == IF caught
                    THEN Step(Catch(missing), cfg.email_enabled,
                              "send_error_notification", env.email = "raise")
                    ELSE missing
        notified == Step(handled, cfg.email_enabled,
                         "send_auto_accept_notification", env.email = "raise")
        matter   == cfg.clio_enabled /\ created.exc = NoExc /\ env.clio = "ok"
    IN  [ st       |-> [notified EXCEPT !.matter = matter],
          clio_url |-> IF matter THEN Some(ClioUrl(lead.record_id)) ELSE None ]

\* LeadProcessor._handle_tier2 (main.py:267-286)
handle_tier2(cfg, lead, env, st) ==
    LET updated == Update(st, TRUE, "update_lead", env, "In Review")
    IN  [ st       |-> Step(updated, cfg.email_enabled,
                            "send_review_notification", env.email = "raise"),
          clio_url |-> None ]

\* LeadProcessor._handle_tier3 (main.py:288-311)
handle_tier3(cfg, lead, env, st) ==
    LET updated  == Update(st, TRUE, "update_lead", env, "Declined")
        referred == Step(updated, cfg.email_enabled /\ lead.email # None,
                         "send_referral_email", env.email = "raise")
    IN  [ st       |-> Step(referred, cfg.email_enabled,
                            "send_decline_notification", env.email = "raise"),
          clio_url |-> None ]

\* LeadProcessor._handle_error (main.py:313-322)
handle_error(cfg, env, st) ==
    Step(Update(st, TRUE, "mark_for_review", env, "In Review"),
         cfg.email_enabled, "send_error_notification", env.email = "raise")

\* str(e) of the exception caught at main.py:175: it names the call that raised
ErrorText(st) == st.calls[Len(st.calls)] \o " failed"

\* what a call of process_lead did: the external calls, the ProcessedLead it
\* appended and returned (None if it did not get there), the exception it
\* let out, the Status it wrote to the record and whether a matter was
\* created
Outcome(lead, st, processed) ==
    [ lead |-> lead, calls |-> st.calls, exc |-> st.exc, processed |-> processed,
      written |-> st.written, matter |-> st.matter ]

\* main.py:148-173, after the qualification
dispatch(cfg, lead, env, qualification, st) ==
    LET h == IF qualification.tier = TIER_1_AUTO_ACCEPT THEN handle_tier1(cfg, lead, env, st)
             ELSE IF qualification.tier = TIER_2_REVIEW THEN handle_tier2(cfg, lead, env, st)
             ELSE handle_tier3(cfg, lead, env, st)
    IN  [ st        |-> h.st,
          processed |-> ProcessedLead(lead.record_id, qualification.tier, qualification.total_score,
                                      tier_to_status(qualification.tier), h.clio_url, None) ]

\* main.py:175-193
process_lead_except(cfg, lead, env, st) ==
    LET handled == handle_error(cfg, env, Catch(st))
    IN  IF handled.exc # NoExc THEN Outcome(lead, handled, None)
        ELSE Outcome(lead, handled,
                     Some(ProcessedLead(lead.record_id, "error", 0, "In Review", None,
                                        Some(ErrorText(st)))))

LeadProcessor_process_lead(cfg, lead, env) ==
    LET qualified == Step(Started(env.interrupt), TRUE, "qualify_lead", env.qualify = None)
        fell_back == IF qualified.exc = Exception
                     THEN Step(Catch(qualified), TRUE, "qualify_lead_fallback",
                               env.fallback = None)
                     ELSE qualified
        qualification == IF env.qualify # None THEN Val(env.qualify) ELSE Val(env.fallback)
        done      == IF fell_back.exc = NoExc
                     THEN dispatch(cfg, lead, env, qualification, fell_back)
                     ELSE [st |-> fell_back, processed |-> None]
    IN  IF done.st.exc = NoExc THEN Outcome(lead, done.st, Some(done.processed))
        ELSE IF done.st.exc = Exception THEN process_lead_except(cfg, lead, env, done.st)
        ELSE Outcome(lead, done.st, None)

(***************************************************************************)
(* SpecDaemon: LeadProcessor.run_daemon (main.py:324-374) run by main of   *)
(* main.py, whose handlers of SIGTERM and SIGINT call stop() (main.py:     *)
(* 446-459), or by main of run_local.py, which installs no handler, so     *)
(* that SIGINT raises KeyboardInterrupt in the thread that runs the daemon *)
(* (run_local.py:94-99).  pc is the place of that thread:                  *)
(*   "start"    run_daemon not yet called                                  *)
(*   "loop"     at the test of the while loop                              *)
(*   "poll"     about to call get_new_leads                                *)
(*   "check"    at the head of the for loop, before the shutdown check     *)
(*   "lead"     past the check, about to call process_lead                 *)
(*   "sleep"    in time.sleep(1) after a lead                              *)
(*   "wait"     in _shutdown_event.wait(timeout)                           *)
(*   "returned" run_daemon returned                                        *)
(*   "aborted"  KeyboardInterrupt left run_daemon                          *)
(*   "stopped"  the except clause of the entry point called stop()         *)
(***************************************************************************)
MaxPolls == 2           \* poll cycles begun
MaxCalls == 9           \* external calls of the longest process_lead
HistorySize == 1        \* max_size of the history (the default is 100)

\* OperationMode (config.py:13-16)
STARTER == "starter"
PRO == "pro"

\* the values of OPERATION_MODE in the environment; None: not set
OperationModes ==
    { None, Some("starter"), Some("pro"), Some("PRO"), Some("pro "), Some("") }

\* mutant: pro is the mode when OPERATION_MODE is not set
AppConfig_from_env_default_pro(operation_mode) ==
    LET mode_str == lower(IF operation_mode = None THEN "pro" ELSE Val(operation_mode))
        mode     == IF mode_str = "pro" THEN PRO ELSE STARTER
    IN  [clio_enabled |-> mode = PRO, email_enabled |-> mode = PRO]

\* AppConfig.from_env (config.py:259-288): the mode and the two feature
\* flags, the fields of AppConfig that the processor reads
AppConfig_from_env(operation_mode) ==
    LET mode_str == lower(IF operation_mode = None THEN "starter" ELSE Val(operation_mode))
        mode     == IF mode_str = "pro" THEN PRO ELSE STARTER
    IN  [clio_enabled |-> mode = PRO, email_enabled |-> mode = PRO]

AppConfigs == { AppConfig_from_env(m) : m \in OperationModes }

EntryPoints == {"main", "run_local"}

\* of a Lead the processor reads record_id and whether email is set
LeadA == [record_id |-> "recA", email |-> Some("a@example.com")]
LeadB == [record_id |-> "recB", email |-> None]
LeadPool == {LeadA, LeadB}

\* the record of a lead as the Airtable table holds it: Case Status, which
\* the filter of get_new_leads reads (airtable_client.py:159), and Status,
\* which update_lead writes (airtable_client.py:211)
NewLead == "New Lead"
Record(case_status, status) == [case_status |-> case_status, status |-> status]

\* the tables at the start of the daemon: None where the table has no
\* record of that id
Tables ==
    { [r \in {LeadA.record_id, LeadB.record_id} |-> None],
      [r \in {LeadA.record_id, LeadB.record_id} |->
          IF r = LeadB.record_id THEN Some(Record(NewLead, None)) ELSE None],
      [r \in {LeadA.record_id, LeadB.record_id} |-> Some(Record(NewLead, None))] }

\* AirtableClient.get_new_leads (airtable_client.py:152-192): the records
\* with Case Status = 'New Lead', sorted by Capture Date (recA is the older)
Matches(table, lead) ==
    table[lead.record_id] # None /\ Val(table[lead.record_id]).case_status = NewLead
get_new_leads(table) ==
    (IF Matches(table, LeadA) THEN <<LeadA>> ELSE <<>>)
        \o (IF Matches(table, LeadB) THEN <<LeadB>> ELSE <<>>)

\* the PATCH of update_lead (airtable_client.py:210-232): it sets Status
update_lead(table, record_id, status) ==
    IF table[record_id] = None THEN table
    ELSE [table EXCEPT ![record_id] = Some([Val(@) EXCEPT !.status = Some(status)])]

\* QualificationResult: the tier and the score
Qualified ==
    { [tier |-> TIER_1_AUTO_ACCEPT, total_score |-> 13],
      [tier |-> TIER_2_REVIEW, total_score |-> 8],
      [tier |-> TIER_3_AUTO_DECLINE, total_score |-> 2] }

Services ==
    [ airtable : {"ok", "fail", "raise"},
      clio     : {"ok", "none", "raise"},
      email    : {"ok", "fail", "raise"} ]

\* what the external calls of one process_lead do
Env(qualify, fallback, services, interrupt) ==
    [ qualify   |-> qualify,
      fallback  |-> fallback,
      airtable  |-> services.airtable,
      clio      |-> services.clio,
      email     |-> services.email,
      interrupt |-> interrupt ]

Qualifications ==
    { <<Some(q), None>> : q \in Qualified }
    \cup { <<None, Some(q)>> : q \in Qualified }
    \cup { <<None, None>> }

Envs ==
    { Env(q[1], q[2], s, i) : q \in Qualifications, s \in Services, i \in 0..MaxCalls }

\* SIGINT interrupts a call only where the default handler is in place
EnvsOf(entry_point) ==
    IF entry_point = "main" THEN { e \in Envs : e.interrupt = 0 } ELSE Envs

\* what process_lead can do with a lead, over all that its external calls
\* can do; tabulated so that each case is computed once
ProcessLeadOutcomes ==
    [ cfg \in AppConfigs, entry_point \in EntryPoints, lead \in LeadPool |->
        { LeadProcessor_process_lead(cfg, lead, env) : env \in EnvsOf(entry_point) } ]

InitDaemon ==
    /\ app \in AppConfigs
    /\ entry \in EntryPoints
    /\ running = FALSE
    /\ shutdown_event = FALSE
    /\ pc = "start"
    /\ batch = <<>>
    /\ processed_count = 0
    /\ polls = 0
    /\ call = None
    /\ after_stop = 0
    /\ fetch = None
    /\ store \in Tables
    /\ matters = [r \in DOMAIN store |-> 0]
    /\ history = <<>>
    /\ max_size = HistorySize
    /\ added = <<>>
    /\ creds = None
    /\ ReadIdle
    /\ RuleIdle
    /\ TwoTierIdle

engineVars == <<config, tierVars, ruleVars, twoTierVars, creds, readVars>>

\* run_daemon, main.py:352
RunDaemon ==
    /\ pc = "start"
    /\ running' = TRUE
    /\ pc' = "loop"
    /\ UNCHANGED <<engineVars, historyVars, app, entry, shutdown_event, batch,
                   processed_count, polls, call, after_stop, fetch, store, matters>>

\* mutant: the loop tests _running only
LoopTest_running_only ==
    /\ pc = "loop"
    /\ running => polls < MaxPolls
    /\ IF running
       THEN pc' = "poll" /\ polls' = polls + 1
       ELSE pc' = "returned" /\ polls' = polls
    /\ UNCHANGED <<engineVars, historyVars, app, entry, running, shutdown_event, batch,
                   processed_count, call, after_stop, fetch, store, matters>>

\* run_daemon, main.py:355 and 368
LoopTest ==
    /\ pc = "loop"
    /\ (running /\ ~shutdown_event) => polls < MaxPolls
    /\ IF running /\ ~shutdown_event
       THEN pc' = "poll" /\ polls' = polls + 1
       ELSE pc' = "returned" /\ polls' = polls
    /\ UNCHANGED <<engineVars, historyVars, app, entry, running, shutdown_event, batch,
                   processed_count, call, after_stop, fetch, store, matters>>

\* mutant: run_daemon ends its loop when process_all_new_leads raises
GetNewLeads_raise_ends_loop(fails, email) ==
    /\ pc = "poll"
    /\ IF ~fails
       THEN /\ batch' = get_new_leads(store)
            /\ pc' = "check"
            /\ fetch' = Some([calls |-> <<"get_new_leads">>, outcome |-> "leads"])
       ELSE /\ batch' = <<>>
            /\ pc' = IF app.email_enabled /\ email = "raise" THEN "returned" ELSE "wait"
            /\ fetch' = Some([calls   |-> IF app.email_enabled
                                          THEN <<"get_new_leads", "send_error_notification">>
                                          ELSE <<"get_new_leads">>,
                              outcome |-> IF app.email_enabled /\ email = "raise"
                                          THEN "raised" ELSE "returned 0"])
    /\ processed_count' = 0
    /\ UNCHANGED <<engineVars, historyVars, app, entry, running, shutdown_event,
                   polls, call, after_stop, store, matters>>

\* process_all_new_leads, main.py:327-330 and 344-348.  get_new_leads
\* returns the matching records, or raises (fails); then the except clause
\* sends the error notification if email is enabled and returns 0, unless
\* the notification raises (email = "raise"): then process_all_new_leads
\* raises, and run_daemon catches it (main.py:362).  The daemon goes on to
\* its wait in both cases.
GetNewLeads(fails, email) ==
    /\ pc = "poll"
    /\ IF ~fails
       THEN /\ batch' = get_new_leads(store)
            /\ pc' = "check"
            /\ fetch' = Some([calls |-> <<"get_new_leads">>, outcome |-> "leads"])
       ELSE /\ batch' = <<>>
            /\ pc' = "wait"
            /\ fetch' = Some([calls   |-> IF app.email_enabled
                                          THEN <<"get_new_leads", "send_error_notification">>
                                          ELSE <<"get_new_leads">>,
                              outcome |-> IF app.email_enabled /\ email = "raise"
                                          THEN "raised" ELSE "returned 0"])
    /\ processed_count' = 0
    /\ UNCHANGED <<engineVars, historyVars, app, entry, running, shutdown_event,
                   polls, call, after_stop, store, matters>>

\* mutant: the loop over the batch does not look at the shutdown flag
CheckShutdown_unchecked ==
    /\ pc = "check"
    /\ pc' = IF batch = <<>> THEN "wait" ELSE "lead"
    /\ UNCHANGED <<engineVars, historyVars, app, entry, running, shutdown_event, batch,
                   processed_count, polls, call, after_stop, fetch, store, matters>>

\* process_all_new_leads, main.py:331-334 and 342
CheckShutdown ==
    /\ pc = "check"
    /\ pc' = IF batch = <<>> \/ shutdown_event THEN "wait" ELSE "lead"
    /\ UNCHANGED <<engineVars, historyVars, app, entry, running, shutdown_event, batch,
                   processed_count, polls, call, after_stop, fetch, store, matters>>

\* process_all_new_leads, main.py:336-337 with process_lead; an Exception
\* out of process_lead ends the batch at main.py:344-348, KeyboardInterrupt
\* leaves run_daemon
ProcessLead ==
    /\ pc = "lead"
    /\ \E done \in ProcessLeadOutcomes[app, entry, Head(batch)] :
          /\ call' = Some(done)
          /\ history' = IF done.processed # None
                        THEN ProcessingHistory_add(history, max_size, Val(done.processed))
                        ELSE history
          /\ processed_count' = IF done.exc = NoExc THEN processed_count + 1
                                ELSE processed_count
          /\ pc' = IF done.exc = NoExc THEN "sleep"
                   ELSE IF done.exc = Exception THEN "wait"
                   ELSE "aborted"
          /\ store' = IF done.written # None
                      THEN update_lead(store, done.lead.record_id, Val(done.written))
                      ELSE store
          /\ matters' = IF done.matter
                        THEN [matters EXCEPT ![done.lead.record_id] = @ + 1]
                        ELSE matters
    /\ after_stop' = IF shutdown_event THEN after_stop + 1 ELSE after_stop
    /\ batch' = Tail(batch)
    /\ UNCHANGED <<engineVars, max_size, added, app, entry, running, shutdown_event, polls,
                   fetch>>

\* process_all_new_leads, main.py:340
Sleep ==
    /\ pc = "sleep"
    /\ pc' = "check"
    /\ UNCHANGED <<engineVars, historyVars, app, entry, running, shutdown_event, batch,
                   processed_count, polls, call, after_stop, fetch, store, matters>>

\* run_daemon, main.py:366: the wait ends at the timeout or when the event
\* is set
Wait ==
    /\ pc = "wait"
    /\ pc' = "loop"
    /\ UNCHANGED <<engineVars, historyVars, app, entry, running, shutdown_event, batch,
                   processed_count, polls, call, after_stop, fetch, store, matters>>

\* LeadProcessor.stop (main.py:370-374) called by the signal handler of
\* main.py:447-452, at any point from the installation of the handler on
Stop ==
    /\ entry = "main"
    /\ pc \notin {"returned"}
    /\ ~shutdown_event
    /\ running' = FALSE
    /\ shutdown_event' = TRUE
    /\ UNCHANGED <<engineVars, historyVars, app, entry, pc, batch, processed_count,
                   polls, call, after_stop, fetch, store, matters>>

\* SIGINT under run_local.py while run_daemon is between two calls of
\* process_lead: KeyboardInterrupt leaves run_daemon
Interrupt ==
    /\ entry = "run_local"
    /\ pc \in {"loop", "poll", "check", "lead", "sleep", "wait"}
    /\ pc' = "aborted"
    /\ UNCHANGED <<engineVars, historyVars, app, entry, running, shutdown_event, batch,
                   processed_count, polls, call, after_stop, fetch, store, matters>>

\* except KeyboardInterrupt: processor.stop() (run_local.py:97-99)
StopAfterInterrupt ==
    /\ pc = "aborted"
    /\ running' = FALSE
    /\ shutdown_event' = TRUE
    /\ pc' = "stopped"
    /\ UNCHANGED <<engineVars, historyVars, app, entry, batch, processed_count,
                   polls, call, after_stop, fetch, store, matters>>

\* the steps of the thread that runs the daemon
DaemonThread ==
    \/ RunDaemon
    \/ LoopTest
    \/ \E fails \in BOOLEAN, email \in {"ok", "fail", "raise"} : GetNewLeads(fails, email)
    \/ CheckShutdown
    \/ ProcessLead
    \/ Sleep
    \/ Wait
    \/ StopAfterInterrupt

NextDaemon ==
    \/ DaemonThread
    \/ Stop
    \/ Interrupt

SpecDaemon == InitDaemon /\ [][NextDaemon]_vars

\* every call the daemon makes returns and its thread keeps being scheduled
SpecDaemonFair == SpecDaemon /\ WF_vars(DaemonThread)

(***************************************************************************)
(* SpecStartup: main of main.py (412-459) and of run_local.py (43-99) up   *)
(* to the first lead.  creds is what the environment provides; a call to   *)
(* a service whose credential is missing is refused: create_matter without *)
(* CLIO_ACCESS_TOKEN returns None (clio_client.py:62-66, 215-225), and     *)
(* send_email without the Gmail credentials file returns False             *)
(* (email_handler.py:66-68, 87-100).  pc is the place of the main thread:  *)
(*   "main"       at the head of main                                      *)
(*   "exited"     sys.exit(1)                                              *)
(*   "run_daemon" about to call run_daemon                                 *)
(*   "processed"  after the first call of process_lead                     *)
(***************************************************************************)
AIRTABLE_API_KEY == "AIRTABLE_API_KEY"
OPENAI_API_KEY == "OPENAI_API_KEY"
ANTHROPIC_API_KEY == "ANTHROPIC_API_KEY"
CLIO_ACCESS_TOKEN == "CLIO_ACCESS_TOKEN"
GMAIL_CREDENTIALS_FILE == "GMAIL_CREDENTIALS_FILE"
Credentials ==
    { AIRTABLE_API_KEY, OPENAI_API_KEY, ANTHROPIC_API_KEY, CLIO_ACCESS_TOKEN,
      GMAIL_CREDENTIALS_FILE }

\* AppConfig.validate (config.py:290-301): the list of errors
AppConfig_validate(present) ==
    SelectSeq(<<AIRTABLE_API_KEY, OPENAI_API_KEY, ANTHROPIC_API_KEY>>,
              LAMBDA key : key \notin present)

\* what the external calls of process_lead can do when Clio has a token
\* (clio_ok) or not, and Gmail its credentials (gmail_ok) or not
EnvsWith(clio_ok, gmail_ok) ==
    { e \in EnvsOf("main") : /\ ~clio_ok => e.clio = "none"
                             /\ ~gmail_ok => e.email = "fail" }

FirstLeadOutcomes ==
    [ cfg \in AppConfigs, clio_ok \in BOOLEAN, gmail_ok \in BOOLEAN, lead \in LeadPool |->
        { LeadProcessor_process_lead(cfg, lead, env) : env \in EnvsWith(clio_ok, gmail_ok) } ]

InitStartup ==
    /\ creds \in SUBSET Credentials
    /\ app \in AppConfigs
    /\ entry \in EntryPoints
    /\ pc = "main"
    /\ call = None
    /\ running = FALSE
    /\ shutdown_event = FALSE
    /\ batch = <<>>
    /\ processed_count = 0
    /\ polls = 0
    /\ after_stop = 0
    /\ fetch = None
    /\ store = None
    /\ matters = None
    /\ history = <<>>
    /\ max_size = HistorySize
    /\ added = <<>>
    /\ ReadIdle
    /\ RuleIdle
    /\ TwoTierIdle

\* main, main.py:412-444 (run_local.py:43-80): validate, then the test of
\* the Airtable connection; the results of the other tests are only logged
Main(airtable_ok) ==
    /\ pc = "main"
    /\ pc' = IF AppConfig_validate(creds) # <<>> THEN "exited"
             ELSE IF ~airtable_ok THEN "exited"
             ELSE "run_daemon"
    /\ UNCHANGED <<engineVars, historyVars, app, entry, running, shutdown_event, batch,
                   processed_count, polls, call, after_stop, fetch, store, matters>>

\* the first lead of the first poll
FirstLead ==
    /\ pc = "run_daemon"
    /\ \E lead \in LeadPool :
          \E done \in FirstLeadOutcomes[app, (CLIO_ACCESS_TOKEN \in creds),
                                        (GMAIL_CREDENTIALS_FILE \in creds), lead] :
             /\ call' = Some(done)
             /\ history' = IF done.processed # None
                           THEN ProcessingHistory_add(history, max_size, Val(done.processed))
                           ELSE history
    /\ pc' = "processed"
    /\ UNCHANGED <<engineVars, max_size, added, app, entry, running, shutdown_event, batch,
                   processed_count, polls, after_stop, fetch, store, matters>>

NextStartup ==
    \/ \E airtable_ok \in BOOLEAN : Main(airtable_ok)
    \/ FirstLead

SpecStartup == InitStartup /\ [][NextStartup]_vars

(***************************************************************************)
(* The reads of ProcessingHistory (main.py:55-91), as the dashboard makes  *)
(* them (dashboard.py:26-52).                                              *)
(***************************************************************************)
\* ProcessingHistory.get_recent (main.py:55-57): the slice [:limit], limit >= 0
ProcessingHistory_get_recent(h, limit) ==
    SubSeq(h, 1, IF limit < Len(h) THEN limit ELSE Len(h))

CountOf(h, Test(_)) == Len(SelectSeq(h, Test))

\* ProcessingHistory.get_stats (main.py:59-73); `if l.error` is the
\* truthiness of an Optional[str]
ProcessingHistory_get_stats(h) ==
    [ total_processed |-> Len(h),
      auto_accepted   |-> CountOf(h, LAMBDA l : l.tier = "tier1"),
      needs_review    |-> CountOf(h, LAMBDA l : l.tier = "tier2"),
      auto_declined   |-> CountOf(h, LAMBDA l : l.tier = "tier3"),
      errors          |-> CountOf(h, LAMBDA l : Truthy(l.error)) ]

\* json.dumps of an Optional[str]
JsonOf(o) == IF o = None THEN "null" ELSE "\"" \o Val(o) \o "\""

\* ProcessingHistory.to_json (main.py:75-91): one object per entry, in the
\* order of the history
ProcessingHistory_to_json(h) ==
    [ n \in 1..Len(h) |->
        [ record_id       |-> "\"" \o h[n].record_id \o "\"",
          tier            |-> "\"" \o h[n].tier \o "\"",
          score           |-> h[n].score,
          status          |-> "\"" \o h[n].status \o "\"",
          clio_matter_url |-> JsonOf(h[n].clio_matter_url),
          error           |-> JsonOf(h[n].error) ] ]

(***************************************************************************)
(* SpecReaders: the thread of the poll loop adds entries to the history    *)
(* (main.py:172, 190) while the threads of the dashboard read it (Flask    *)
(* runs threaded, run_local.py:32-39, 83-89).  Every method of             *)
(* ProcessingHistory runs under _lock (main.py:50, 56, 60, 76).  add is    *)
(* two steps, the insert and the truncation; a read is one step under the  *)
(* lock.  The caller of get_recent may then change the list it got.        *)
(***************************************************************************)
MaxReadSize == 2        \* capacities 1..MaxReadSize
MaxReadAdds == 3        \* add calls
MaxLimit == 2           \* get_recent(limit), limit in 0..MaxLimit

PollThread == "poll"
DashboardThreads == {"dashboard1", "dashboard2"}

\* entries that process_lead adds: an accepted lead, and error entries whose
\* error is str(e), empty for an exception raised without a message
\* (main.py:159-171, 181-189)
ReadEntries ==
    { ProcessedLead("recA", TIER_1_AUTO_ACCEPT, 13, "Accepted", None, None),
      ProcessedLead("recB", "error", 0, "In Review", None, Some("update_lead failed")),
      ProcessedLead("recB", "error", 0, "In Review", None, Some("")) }

Reads ==
    { [op |-> "get_recent", limit |-> l] : l \in 0..MaxLimit }
    \cup { [op |-> "get_stats", limit |-> 0], [op |-> "to_json", limit |-> 0] }

\* what a read returns: the field of its method is set, the others are empty
ReadOf(read, h) ==
    [ op     |-> read.op,
      limit  |-> read.limit,
      recent |-> IF read.op = "get_recent"
                 THEN ProcessingHistory_get_recent(h, read.limit) ELSE <<>>,
      stats  |-> ProcessingHistory_get_stats(IF read.op = "get_stats" THEN h ELSE <<>>),
      json   |-> IF read.op = "to_json" THEN ProcessingHistory_to_json(h) ELSE <<>> ]

InitReaders ==
    /\ history = <<>>
    /\ max_size \in 1..MaxReadSize
    /\ added = <<>>
    /\ lock = None
    /\ adding = None
    /\ reading = [t \in DashboardThreads |-> None]
    /\ seen = None
    /\ recent = None
    /\ creds = None
    /\ DaemonIdle
    /\ RuleIdle
    /\ TwoTierIdle

otherVars == <<config, tierVars, ruleVars, twoTierVars, daemonVars, creds>>

\* add, main.py:50: the poll thread takes the lock
AddAcquire(lead) ==
    /\ Len(added) < MaxReadAdds
    /\ adding = None
    /\ lock = None
    /\ lock' = Some(PollThread)
    /\ adding' = Some([lead |-> lead, inserted |-> FALSE])
    /\ UNCHANGED <<otherVars, history, max_size, added, reading, seen, recent>>

\* add, main.py:51
AddInsert ==
    /\ adding # None
    /\ ~Val(adding).inserted
    /\ history' = <<Val(adding).lead>> \o history
    /\ adding' = Some([Val(adding) EXCEPT !.inserted = TRUE])
    /\ UNCHANGED <<otherVars, max_size, added, lock, reading, seen, recent>>

\* add, main.py:52-53, and the release of the lock
AddTruncate ==
    /\ adding # None
    /\ Val(adding).inserted
    /\ history' = IF Len(history) > max_size THEN SubSeq(history, 1, max_size) ELSE history
    /\ added' = Append(added, Val(adding).lead)
    /\ adding' = None
    /\ lock' = IF lock = Some(PollThread) THEN None ELSE lock
    /\ UNCHANGED <<otherVars, max_size, reading, seen, recent>>

\* mutant: the read does not take the lock
ReadAcquire_unlocked(t, read) ==
    /\ reading[t] = None
    /\ reading' = [reading EXCEPT ![t] = Some(read)]
    /\ UNCHANGED <<otherVars, historyVars, lock, adding, seen, recent>>

\* get_recent, get_stats, to_json (main.py:56, 60, 76): a dashboard thread
\* takes the lock
ReadAcquire(t, read) ==
    /\ reading[t] = None
    /\ lock = None
    /\ lock' = Some(t)
    /\ reading' = [reading EXCEPT ![t] = Some(read)]
    /\ UNCHANGED <<otherVars, historyVars, adding, seen, recent>>

\* the body of the read (main.py:57, 61-73, 77-91) and the release of the
\* lock; the slice and its copy are new lists
Read(t) ==
    /\ reading[t] # None
    /\ seen' = Some(ReadOf(Val(reading[t]), history))
    /\ recent' = IF Val(reading[t]).op = "get_recent"
                 THEN Some(ProcessingHistory_get_recent(history, Val(reading[t]).limit))
                 ELSE recent
    /\ reading' = [reading EXCEPT ![t] = None]
    /\ lock' = IF lock = Some(t) THEN None ELSE lock
    /\ UNCHANGED <<otherVars, historyVars, adding>>

\* the caller of get_recent removes the first entry of the list it got
MutateRecent ==
    /\ recent # None
    /\ Val(recent) # <<>>
    /\ recent' = Some(Tail(Val(recent)))
    /\ UNCHANGED <<otherVars, historyVars, lock, adding, reading, seen>>

NextReaders ==
    \/ \E lead \in ReadEntries : AddAcquire(lead)
    \/ AddInsert
    \/ AddTruncate
    \/ \E t \in DashboardThreads, read \in Reads : ReadAcquire(t, read)
    \/ \E t \in DashboardThreads : Read(t)
    \/ MutateRecent

SpecReaders == InitReaders /\ [][NextReaders]_vars

(***************************************************************************)
(* Properties of the rule-based engine                                     *)
(***************************************************************************)
TierRank(t) ==
    CASE t = TIER_3_AUTO_DECLINE -> 0
      [] t = TIER_2_REVIEW       -> 1
      [] t = TIER_1_AUTO_ACCEPT  -> 2

Abs(n) == IF n < 0 THEN 0 - n ELSE n
FlagTypes(r) == { r.safety_flags[n].flag_type : n \in 1..Len(r.safety_flags) }

\* C1: whatever the score, the safety flags and the SOL outcome, a lead that
\* is not in the configured jurisdiction gets TIER_3_AUTO_DECLINE.
C1_OutOfJurisdictionDeclines ==
    (dt.called /\ ~dt.is_in_sc) => dt.tier = TIER_3_AUTO_DECLINE

\* an out-of-jurisdiction lead that every other rule would accept
C1_Witness ==
    /\ dt.called
    /\ ~dt.is_in_sc
    /\ dt.sol_adequate
    /\ dt.safety_flags = <<>>
    /\ dt.score >= config.tier1_threshold
    /\ dt.tier = TIER_3_AUTO_DECLINE

\* C2: sol_adequate is false exactly when the remaining SOL months are unknown
\* or below min_sol_months_remaining, and then the tier is TIER_3_AUTO_DECLINE
\* whatever the score and the safety flags.
C2_SolInadequateDeclines ==
    result # None =>
       LET r == Val(result) IN
       /\ ~r.sol_adequate <=>
             (\/ r.months_until_sol = None
              \/ Val(r.months_until_sol) < config.min_sol_months_remaining)
       /\ ~r.sol_adequate => r.tier = TIER_3_AUTO_DECLINE

\* an in-jurisdiction lead with an accept-level score and no flag, declined
\* because too few SOL months remain
C2_Witness ==
    /\ result # None
    /\ Val(result).months_until_sol # None
    /\ Val(Val(result).months_until_sol) < config.min_sol_months_remaining
    /\ Val(result).is_in_sc
    /\ Val(result).safety_flags = <<>>
    /\ Val(result).total_score >= config.tier1_threshold
    /\ Val(result).tier = TIER_3_AUTO_DECLINE

\* C3: in jurisdiction, with adequate SOL and score >= tier1_threshold, a lead
\* with any detected safety flag gets TIER_2_REVIEW (neither accept nor
\* decline); and a lead whose tier was REVIEW or DECLINE keeps that tier when
\* it differs only by having more safety flags.
C3_FlagDowngradesAcceptToReview ==
    result # None =>
       LET r == Val(result) IN
       /\ (/\ r.is_in_sc
           /\ r.sol_adequate
           /\ r.total_score >= config.tier1_threshold
           /\ r.safety_flags # <<>>) => r.tier = TIER_2_REVIEW
       /\ prevResult # None =>
             LET p == Val(prevResult) IN
             (/\ p.total_score = r.total_score
              /\ p.is_in_sc = r.is_in_sc
              /\ p.sol_adequate = r.sol_adequate
              /\ FlagTypes(p) \subseteq FlagTypes(r)
              /\ FlagTypes(p) # FlagTypes(r)
              /\ p.tier \in {TIER_2_REVIEW, TIER_3_AUTO_DECLINE}) => r.tier = p.tier

\* a flagged accept-level lead in review, reached from a lead in review by
\* one more flag
C3_Witness ==
    /\ result # None
    /\ prevResult # None
    /\ Val(result).is_in_sc
    /\ Val(result).sol_adequate
    /\ Val(result).total_score >= config.tier1_threshold
    /\ Val(result).tier = TIER_2_REVIEW
    /\ Val(prevResult).total_score = Val(result).total_score
    /\ Val(prevResult).is_in_sc
    /\ Val(prevResult).sol_adequate
    /\ Val(prevResult).tier = TIER_2_REVIEW
    /\ FlagTypes(Val(prevResult)) \subseteq FlagTypes(Val(result))
    /\ FlagTypes(Val(prevResult)) # FlagTypes(Val(result))

\* C4: with the safety flags, is_in_sc and sol_adequate fixed, a higher score
\* never gets a stricter tier (DECLINE < REVIEW < ACCEPT), for every
\* configuration of the two thresholds.
C4_TierMonotonicInScore ==
    (/\ dt.called
     /\ dtPrev.called
     /\ dt.safety_flags = dtPrev.safety_flags
     /\ dt.is_in_sc = dtPrev.is_in_sc
     /\ dt.sol_adequate = dtPrev.sol_adequate) =>
        /\ dtPrev.score <= dt.score => TierRank(dtPrev.tier) <= TierRank(dt.tier)
        /\ dt.score <= dtPrev.score => TierRank(dt.tier) <= TierRank(dtPrev.tier)

\* the same facts rescored upwards, from decline to accept
C4_Witness ==
    /\ dt.called
    /\ dtPrev.called
    /\ dt.safety_flags = dtPrev.safety_flags
    /\ dt.is_in_sc = dtPrev.is_in_sc
    /\ dt.sol_adequate = dtPrev.sol_adequate
    /\ dtPrev.score < dt.score
    /\ dtPrev.tier = TIER_3_AUTO_DECLINE
    /\ dt.tier = TIER_1_AUTO_ACCEPT

\* C5: total_score is exactly the sum of the six component point values of
\* the QualificationResult.
C5_TotalIsSumOfComponents ==
    result # None =>
       LET r == Val(result) IN
       r.total_score = r.medical_treatment_points + r.liability_points
                       + r.insurance_points + r.sol_points
                       + r.serious_injury_points + r.geographic_bonus

\* a lead that scores on all six components
C5_Witness ==
    /\ result # None
    /\ Val(result).medical_treatment_points > 0
    /\ Val(result).liability_points > 0
    /\ Val(result).insurance_points > 0
    /\ Val(result).sol_points > 0
    /\ Val(result).serious_injury_points > 0
    /\ Val(result).geographic_bonus > 0

\* the six components of a result, and the results p, r differing in exactly
\* the component c
Components ==
    { "medical_treatment_met", "liability_met", "insurance_identified",
      "sol_adequate", "serious_injury", "is_tri_county" }

OnlyDiffers(p, r, c) ==
    /\ p[c] # r[c]
    /\ \A d \in Components \ {c} : p[d] = r[d]

ConfiguredPoints(cfg, c) ==
    CASE c = "medical_treatment_met" -> cfg.medical_treatment_points
      [] c = "liability_met"         -> cfg.clear_liability_points
      [] c = "insurance_identified"  -> cfg.identified_insurance_points
      [] c = "sol_adequate"          -> cfg.sol_buffer_points
      [] c = "serious_injury"        -> cfg.serious_injury_points
      [] c = "is_tri_county"         -> cfg.tri_county_bonus

\* C6 as stated: changing one component's met/unmet state, the others fixed,
\* changes total_score by exactly that component's configured point value.
C6_Original ==
    (result # None /\ prevResult # None) =>
       \A c \in Components :
          OnlyDiffers(Val(prevResult), Val(result), c) =>
             Abs(Val(result).total_score - Val(prevResult).total_score)
                = ConfiguredPoints(config, c)

\* the change of total_score the code makes when component c alone changes;
\* m is the result in which c is met
ExpectedChange(cfg, c, m) ==
    CASE c = "sol_adequate" ->
            IF Val(m.months_until_sol) > 24 THEN cfg.sol_buffer_points ELSE 0
      [] c = "is_tri_county" ->
            IF m.is_in_sc THEN cfg.tri_county_bonus ELSE 0
      [] OTHER -> ConfiguredPoints(cfg, c)

\* C6, amended: changing one component's met/unmet state, the others fixed,
\* changes total_score by exactly that component's configured point value
\* for medical treatment, liability, insurance and serious injury; for SOL
\* by sol_buffer_points if the adequate lead has more than 24 months left and
\* by 0 otherwise; for the preferred region by tri_county_bonus if the
\* preferred-region lead is in jurisdiction and by 0 otherwise.
C6_ComponentChangesScoreByItsPoints ==
    (result # None /\ prevResult # None) =>
       LET p == Val(prevResult)
           r == Val(result)
       IN \A c \in Components :
             OnlyDiffers(p, r, c) =>
                Abs(r.total_score - p.total_score)
                   = ExpectedChange(config, c, IF r[c] THEN r ELSE p)

\* SOL alone goes from inadequate to adequate with at most 24 months left:
\* the score does not move
C6_Witness ==
    /\ result # None
    /\ prevResult # None
    /\ OnlyDiffers(Val(prevResult), Val(result), "sol_adequate")
    /\ Val(result).sol_adequate
    /\ Val(Val(result).months_until_sol) <= 24
    /\ Val(result).total_score = Val(prevResult).total_score

(***************************************************************************)
(* Properties of the two-tier engine                                       *)
(***************************************************************************)
\* the Tier-1 result behind the current outcome
Tier1 == ChatGPTScorer_score_lead(thresholds, gptReply)

\* the decision table of the recommendation, written out
RecommendationTable(th, score, label, missing_info) ==
    IF score >= th.fast_track THEN FAST_TRACK
    ELSE IF score >= th.claude_review THEN CLAUDE_REVIEW
    ELSE IF score >= th.need_info /\ Len(missing_info.v) > 0 THEN NEED_INFO
    ELSE IF label = "NEED-INFO" /\ Len(missing_info.v) > 0 THEN NEED_INFO
    ELSE DECLINE

\* C7: claude_triggered is true exactly when the Tier-1 recommendation is
\* CLAUDE-REVIEW; the Tier-2 analyzer is called exactly in that case; under
\* every other recommendation the five Tier-2 fields are null.
C7_ClaudeTriggeredIffClaudeReview ==
    twoTier # None =>
        LET o == Val(twoTier) IN
        /\ (o.claude_calls = 1) <=> (Tier1.recommendation = CLAUDE_REVIEW)
        /\ o.claude_calls \in {0, 1}
        /\ ~o.raised =>
              /\ o.result.chatgpt_recommendation = Tier1.recommendation
              /\ o.result.claude_triggered <=> (o.result.chatgpt_recommendation = CLAUDE_REVIEW)
              /\ o.result.chatgpt_recommendation # CLAUDE_REVIEW =>
                    /\ o.result.claude_analysis = PyNone
                    /\ o.result.claude_case_comparisons = PyNone
                    /\ o.result.claude_carrier_strategy = PyNone
                    /\ o.result.claude_recommendation = PyNone
                    /\ o.result.claude_confidence = None

\* an escalated lead whose Tier-2 analysis came back
C7_Witness ==
    /\ twoTier # None
    /\ ~Val(twoTier).raised
    /\ Val(twoTier).claude_calls = 1
    /\ Val(twoTier).result.claude_triggered
    /\ Val(twoTier).result.chatgpt_recommendation = CLAUDE_REVIEW
    /\ Val(twoTier).result.claude_recommendation = PyStr("Accept")
    /\ Val(twoTier).result.claude_confidence = Some(80)

\* C8: the final decision is "Accept" for FAST-TRACK, "Decline" for DECLINE
\* and "Need More Info" for NEED-INFO, each with the Tier-1 confidence; for
\* CLAUDE-REVIEW the final decision and confidence are those of Tier-2.
C8_FinalDecisionFollowsRecommendation ==
    (twoTier # None /\ ~Val(twoTier).raised) =>
        LET r == Val(twoTier).result
            tier2 == ClaudeAnalyzer_analyze_lead(Tier1, claudeReply).v
        IN CASE Tier1.recommendation = FAST_TRACK ->
                    /\ r.final_decision = PyStr("Accept")
                    /\ r.final_confidence = Tier1.confidence
             [] Tier1.recommendation = DECLINE ->
                    /\ r.final_decision = PyStr("Decline")
                    /\ r.final_confidence = Tier1.confidence
             [] Tier1.recommendation = NEED_INFO ->
                    /\ r.final_decision = PyStr("Need More Info")
                    /\ r.final_confidence = Tier1.confidence
             [] Tier1.recommendation = CLAUDE_REVIEW ->
                    /\ r.final_decision = tier2.final_recommendation
                    /\ r.final_confidence = tier2.confidence

\* an escalated lead whose Tier-2 confidence differs from the Tier-1 one
C8_Witness ==
    /\ twoTier # None
    /\ ~Val(twoTier).raised
    /\ Val(twoTier).result.chatgpt_recommendation = CLAUDE_REVIEW
    /\ Val(twoTier).result.chatgpt_confidence = 66
    /\ Val(twoTier).result.final_decision = PyStr("Decline")
    /\ Val(twoTier).result.final_confidence = 85

Document(text) ==
    IF clean_response(Some(text)).ok THEN json_loads(clean_response(Some(text)).v)
    ELSE Raise("JSONDecodeError")

\* a response field is numeric if int() takes it
Numeric(doc, key) == key \in { doc.v[n][1] : n \in 1..Len(doc.v) } /\ py_int(Get(doc, key, PyNone)).ok

\* Tier-1 text that is not JSON, not an object, or whose score is missing or not numeric
MalformedTier1(text) ==
    \/ ~Document(text).ok
    \/ Document(text).v.t # "dict"
    \/ ~Numeric(Document(text).v, "score")

\* Tier-2 text that is not JSON, not an object, without a recommendation, or
\* whose confidence is missing or not numeric
MalformedTier2(text) ==
    \/ ~Document(text).ok
    \/ Document(text).v.t # "dict"
    \/ Get(Document(text).v, "final_recommendation", PyNone) = PyNone
    \/ ~Numeric(Document(text).v, "confidence")

\* C10: whatever text the providers return, qualify_lead returns a result;
\* a malformed Tier-1 text gives score 0 and CLAUDE-REVIEW, a malformed
\* Tier-2 text gives "Need More Info" with confidence 0.
C10_MalformedResponsesDegrade ==
    (/\ twoTier # None
     /\ ~gptReply.raises /\ gptReply.content # None
     /\ ~claudeReply.raises /\ claudeReply.content # None) =>
        /\ ~Val(twoTier).raised
        /\ MalformedTier1(Val(gptReply.content)) =>
              /\ Val(twoTier).result.chatgpt_score = 0
              /\ Val(twoTier).result.chatgpt_recommendation = CLAUDE_REVIEW
        /\ (Val(twoTier).result.claude_triggered /\ MalformedTier2(Val(claudeReply.content))) =>
              /\ Val(twoTier).result.final_decision = PyStr("Need More Info")
              /\ Val(twoTier).result.final_confidence = 0

\* C11: when the Tier-1 provider call raises, the Tier-1 result is score 0,
\* confidence 0 and CLAUDE-REVIEW, Tier-2 is called, claude_triggered is
\* true and the final decision is the one Tier-2 returned.
C11_Tier1FailureEscalates ==
    (twoTier # None /\ gptReply.raises) =>
        /\ ~Val(twoTier).raised
        /\ Val(twoTier).claude_calls = 1
        /\ Val(twoTier).result.chatgpt_score = 0
        /\ Val(twoTier).result.chatgpt_confidence = 0
        /\ Val(twoTier).result.chatgpt_recommendation = CLAUDE_REVIEW
        /\ Val(twoTier).result.claude_triggered
        /\ Val(twoTier).result.final_decision =
              ClaudeAnalyzer_analyze_lead(gpt_failure_result, claudeReply).v.final_recommendation
        /\ Val(twoTier).result.final_decision = Val(twoTier).result.claude_recommendation

\* a failed Tier-1 call whose lead Tier-2 then accepted
C11_Witness ==
    /\ twoTier # None
    /\ gptReply.raises
    /\ ~Val(twoTier).raised
    /\ Val(twoTier).result.claude_triggered
    /\ Val(twoTier).result.final_decision = PyStr("Accept")
    /\ Val(twoTier).result.final_confidence = 80

\* C12: when Tier-2 is triggered and its provider call raises, the result
\* has final_decision "Need More Info" and final_confidence 0, with
\* claude_triggered true and the Tier-1 fields as Tier-1 returned them.
C12_Tier2FailureNeedsMoreInfo ==
    (/\ twoTier # None
     /\ Tier1.recommendation = CLAUDE_REVIEW
     /\ prompt_red_flags(Tier1).ok
     /\ claudeReply.raises) =>
        /\ ~Val(twoTier).raised
        /\ Val(twoTier).result.final_decision = PyStr("Need More Info")
        /\ Val(twoTier).result.final_confidence = 0
        /\ Val(twoTier).result.claude_triggered
        /\ Val(twoTier).result.chatgpt_score = Tier1.score
        /\ Val(twoTier).result.chatgpt_recommendation = Tier1.recommendation
        /\ Val(twoTier).result.chatgpt_analysis = Tier1.analysis
        /\ Val(twoTier).result.chatgpt_red_flags = Tier1.red_flags
        /\ Val(twoTier).result.chatgpt_confidence = Tier1.confidence

\* a lead scored 60 with confidence 66 whose Tier-2 call raised
C12_Witness ==
    /\ twoTier # None
    /\ claudeReply.raises
    /\ ~Val(twoTier).raised
    /\ Val(twoTier).result.claude_triggered
    /\ Val(twoTier).result.chatgpt_score = 60
    /\ Val(twoTier).result.chatgpt_confidence = 66
    /\ Val(twoTier).result.final_decision = PyStr("Need More Info")
    /\ Val(twoTier).result.final_confidence = 0

FinalDecisions == { PyStr("Accept"), PyStr("Decline"), PyStr("Need More Info") }

\* C13: in every returned TwoTierResult final_decision is one of "Accept",
\* "Decline", "Need More Info".
C13_FinalDecisionInSet ==
    (twoTier # None /\ ~Val(twoTier).raised) =>
        Val(twoTier).result.final_decision \in FinalDecisions

ScoredFields ==
    { "total_score", "tier", "medical_treatment_met", "liability_met",
      "insurance_identified", "sol_adequate", "serious_injury",
      "is_tri_county", "is_in_sc" }

Min(a, b) == IF a < b THEN a ELSE b

\* the n most recent entries of a log kept oldest first, newest first
MostRecent(log, n) == [ i \in 1..n |-> log[Len(log) + 1 - i] ]

\* C15: after k calls of add the history is the min(k, max_size) most
\* recently added entries, newest first, and never longer than max_size.
C15_HistoryKeepsMostRecent ==
    (max_size > 0) =>
        /\ Len(history) <= max_size
        /\ history = MostRecent(added, Min(Len(added), max_size))

\* an add that evicted: more adds than the capacity, the oldest entry gone
C15_Witness ==
    /\ max_size > 0
    /\ Len(added) = max_size + 2
    /\ Len(history) = max_size
    /\ history[1] = added[Len(added)]
    /\ \A i \in 1..Len(history) : history[i] # added[1]

(***************************************************************************)
(* Properties of the lead processor                                        *)
(***************************************************************************)
\* C16: every call of process_lead that is not cut by an interrupt appends
\* exactly one ProcessedLead of the lead's record_id: with the tier and the
\* score on success, with tier "error", status "In Review" and the error
\* text after an exception in the qualification or in the dispatch.
C16_EveryCallAppendsOneEntry ==
    (call # None /\ Val(call).exc # KeyboardInterrupt) =>
        /\ Val(call).processed # None
        /\ history # <<>>
        /\ history[1] = Val(Val(call).processed)
        /\ history[1].record_id = Val(call).lead.record_id
        /\ \/ history[1].error = None /\ history[1].tier \in QualificationTier
           \/ /\ history[1].error # None
              /\ history[1].tier = "error"
              /\ history[1].status = "In Review"

\* C17: without a shutdown request the loop over a batch leaves no lead of
\* the batch unprocessed, whatever failed while a lead was processed.
C17_FailureNeverAbortsBatch ==
    (pc = "wait" /\ ~shutdown_event) => batch = <<>>

\* C18: a lead whose check finds the shutdown flag set is not processed, and
\* at most one lead is processed after stop().
C18_ShutdownStopsBatch ==
    /\ [](after_stop <= 1)
    /\ [][(pc = "check" /\ shutdown_event) => pc' # "lead"]_vars

\* stop() came while a lead was past its check: that lead was processed,
\* the next one was not, and run_daemon returned
C18_Witness ==
    /\ entry = "main"
    /\ pc = "returned"
    /\ after_stop = 1
    /\ batch # <<>>
    /\ call # None
    /\ Val(call).processed # None

\* C19: once stop() was called, before or during run_daemon, run_daemon
\* eventually returns.
C19_StopLeadsToReturn ==
    (shutdown_event /\ pc # "stopped") ~> (pc = "returned")

\* stop() came during a poll cycle and run_daemon returned without
\* beginning another one
C19_Witness ==
    /\ entry = "main"
    /\ shutdown_event
    /\ ~running
    /\ pc = "returned"
    /\ polls > 0
    /\ polls < MaxPolls

\* the calls of a process_lead that act on the record store, the case
\* management system or the mail
SideEffects(calls) ==
    SelectSeq(calls, LAMBDA c : c \notin {"qualify_lead", "qualify_lead_fallback"})

\* C20: when the processor has stopped on a shutdown request or an
\* interrupt, the last lead for which a side effect was issued has its
\* history entry appended (a lead whose own processing failed aside).
C20_NoPartialSideEffects ==
    (/\ pc \in {"returned", "stopped"}
     /\ call # None
     /\ Val(call).exc # Exception
     /\ SideEffects(Val(call).calls) # <<>>) =>
        /\ Val(call).processed # None
        /\ history # <<>>
        /\ history[1].record_id = Val(call).lead.record_id

\* C23: whenever qualify_lead detects at least one safety flag, the tier
\* is TIER_2_REVIEW, whatever the total_score.
C23_FlagForcesReview ==
    (result # None /\ Val(result).safety_flags # <<>>) =>
        Val(result).tier = TIER_2_REVIEW

FlagFamilies ==
    { {"disputed_liability"}, {"no_medical_treatment", "insufficient_treatment"},
      {"minor_plaintiff"}, {"multiple_parties"}, {"commercial_vehicle"} }

FlagsOfFamily(safety_flags, family) ==
    SelectSeq(safety_flags, LAMBDA f : f.flag_type \in family)

\* C26: _check_safety_rules returns at most one flag per family, hence at
\* most five flags and never both treatment flags, every flag being of one
\* of the five families and of severity "review".
C26_OneFlagPerFamily ==
    (result # None) =>
        /\ \A family \in FlagFamilies :
              Len(FlagsOfFamily(Val(result).safety_flags, family)) <= 1
        /\ Len(Val(result).safety_flags) <= 5
        /\ \A i \in 1..Len(Val(result).safety_flags) :
              /\ Val(result).safety_flags[i].severity = "review"
              /\ Val(result).safety_flags[i].flag_type \in UNION FlagFamilies

\* a lead whose text holds two keywords of the disputed-liability family and
\* of the commercial family, flagged once in each of the five families
C26_Witness ==
    /\ result # None
    /\ Len(Val(result).safety_flags) = 5
    /\ Len(FlagsOfFamily(Val(result).safety_flags,
                         {"no_medical_treatment", "insufficient_treatment"})) = 1
    /\ Len(FlagsOfFamily(Val(result).safety_flags, {"disputed_liability"})) = 1

\* the fields of a QualificationResult that the narrative call does not fill
Decision(r) == [ f \in (DOMAIN r) \ {"ai_analysis"} |-> r[f] ]

\* C27: the narrative call is made at most once, exactly when a client is
\* configured and the tier is not TIER_3_AUTO_DECLINE; without a call or
\* after a failed one ai_analysis is null; and a run whose call failed
\* returns the same score, tier, component outcomes and safety_flags as a
\* run whose call succeeded.
C27_NarrativeCallBestEffort ==
    (result # None) =>
        /\ Val(result).ai_calls \in {0, 1}
        /\ Val(result).ai_calls = 1 <=>
              (claude_client /\ Val(result).tier # TIER_3_AUTO_DECLINE)
        /\ Val(result).ai_calls = 0 => Val(result).ai_analysis = None
        /\ prevResult # None => Decision(Val(result)) = Decision(Val(prevResult))

\* a flagged lead in review whose narrative call succeeded in the first
\* run and failed in the second
C27_Witness ==
    /\ result # None
    /\ prevResult # None
    /\ claude_client
    /\ Val(result).tier = TIER_2_REVIEW
    /\ Val(result).safety_flags # <<>>
    /\ Val(result).ai_calls = 1
    /\ Val(result).ai_analysis = None
    /\ Val(prevResult).ai_analysis # None

\* C24: when the primary qualification call raised and process_lead went on
\* after qualify_lead_fallback, it went on into the handler of a tier, whose
\* first call is update_lead, and not into the error path.
C24_FallbackDispatchesByTier ==
    (/\ call # None
     /\ Len(Val(call).calls) >= 3
     /\ Val(call).calls[2] = "qualify_lead_fallback")
        => Val(call).calls[3] = "update_lead"

\* C28: a record whose processing attempt completed no longer matches the
\* filter of get_new_leads, and Clio holds at most one matter per record.
C28_ProcessedAtMostOnce ==
    /\ (call # None /\ Val(call).exc = NoExc) => ~Matches(store, Val(call).lead)
    /\ \A r \in DOMAIN store : matters[r] <= 1

EmailCalls ==
    { "send_auto_accept_notification", "send_review_notification",
      "send_decline_notification", "send_referral_email", "send_error_notification" }
Made(calls) == { calls[n] : n \in 1..Len(calls) }
Starter(cfg) == ~cfg.clio_enabled /\ ~cfg.email_enabled
NoIntegrationCall ==
    /\ call # None => Made(Val(call).calls) \cap (EmailCalls \cup {"create_matter"}) = {}
    /\ fetch # None => Made(Val(fetch).calls) \cap EmailCalls = {}
    /\ \A r \in DOMAIN matters : matters[r] = 0

\* C25 as stated: both flags are false unless OPERATION_MODE is the string
\* "pro", and true when it is; with both false no call of process_lead and
\* no failed fetch calls Clio or sends an email.
C25_OnlyProEnables ==
    /\ \A m \in OperationModes :
          LET cfg == AppConfig_from_env(m)
          IN  IF m # None /\ Val(m) = "pro"
              THEN cfg.clio_enabled /\ cfg.email_enabled
              ELSE Starter(cfg)
    /\ Starter(app) => NoIntegrationCall

\* C25, amended: both flags are false unless OPERATION_MODE, compared without
\* regard to case, is "pro", and true when it is; with both false no call of
\* process_lead and no failed fetch calls Clio or sends an email.
C25_StarterDisablesIntegrations ==
    /\ \A m \in OperationModes :
          LET cfg == AppConfig_from_env(m)
          IN  IF m # None /\ lower(Val(m)) = "pro"
              THEN cfg.clio_enabled /\ cfg.email_enabled
              ELSE Starter(cfg)
    /\ Starter(app) => NoIntegrationCall

C25_Witness ==
    /\ Starter(app)
    /\ call # None
    /\ Val(call).processed # None
    /\ Val(Val(call).processed).tier = TIER_1_AUTO_ACCEPT
    /\ fetch # None
    /\ Val(fetch).outcome = "returned 0"

FetchFailed == fetch # None /\ Val(fetch).outcome # "leads"

Needs(name) ==
    IF name = "create_matter" THEN {CLIO_ACCESS_TOKEN}
    ELSE IF name \in EmailCalls THEN {GMAIL_CREDENTIALS_FILE}
    ELSE IF name \in {"update_lead", "mark_for_review"} THEN {AIRTABLE_API_KEY}
    ELSE {}

\* C22: when a credential that validate requires is missing, startup exits
\* before any lead is processed; and once startup has passed, no call of
\* process_lead is made to a service whose credential is missing.
C22_ConfigurationFailsFast ==
    /\ (pc # "main" /\ AppConfig_validate(creds) # <<>>) => (pc = "exited" /\ call = None)
    /\ call # None =>
          \A n \in 1..Len(Val(call).calls) : Needs(Val(call).calls[n]) \subseteq creds

(***************************************************************************)
(* Properties of the reads of the history                                  *)
(***************************************************************************)
\* the history after the first k entries of the log were added
Committed(k) == MostRecent(SubSeq(added, 1, k), Min(k, max_size))

C30_StatsAddUp ==
    (seen # None /\ Val(seen).op = "get_stats") =>
        LET s == Val(seen).stats
        IN  s.total_processed
                = s.auto_accepted + s.needs_review + s.auto_declined + s.errors

====
